---- MODULE Spec2Model ----
(***************************************************************************)
(* Django Schema Viewer: the client-side diagramming engine.               *)
(*                                                                         *)
(* Layout (the second, current definition of the Layout object in          *)
(* src/unnamed/part_000, lines 534-1361), Utils.calculateNodeHeights       *)
(* (utils.js) and the SchemaViewer event handlers (canvas.js).             *)
(*                                                                         *)
(* Coordinates are layout pixels held as integers.  JavaScript Map and Set *)
(* objects, whose iteration order is insertion order, are sequences        *)
(* without repetition (plus a function for the values of a Map).           *)
(***************************************************************************)
EXTENDS Integers, Sequences, FiniteSets, TLC

(***************************************************************************)
(* Generic helpers                                                         *)
(***************************************************************************)
Range(s) == {s[i] : i \in DOMAIN s}

Min2(a, b) == IF a < b THEN a ELSE b

Max2(a, b) == IF a > b THEN a ELSE b

Abs(a) == IF a < 0 THEN -a ELSE a

\* Set.prototype.add on an insertion-ordered Set
SetAdd(s, x) == IF x \in Range(s) THEN s ELSE Append(s, x)

SetMax(S) == CHOOSE m \in S : \A o \in S : o <= m

SetMin(S) == CHOOSE m \in S : \A o \in S : m <= o

\* the value null / undefined
Null == [null |-> TRUE]

(***************************************************************************)
(* Program constants                                                       *)
(***************************************************************************)
nodeWidth == 220

horizontalGap == 150

verticalGap == 100

headerHeight == 50

paddingHeight == 16

fieldHeight == 28

moreFieldsHeight == 24

maxFields == 5

defaultHeight == 180

firstRowY == 50

firstColX == 50

(***************************************************************************)
(* Schema records.  A name is a stem with or without the suffix "_id":     *)
(* [stem |-> "author", id |-> TRUE] is the string "author_id".  Stems hold *)
(* no "_id" themselves.                                                    *)
(***************************************************************************)
Name(stem) == [stem |-> stem, id |-> FALSE]

NameId(stem) == [stem |-> stem, id |-> TRUE]

Field(name, pk) == [name |-> name, primary_key |-> pk]

Rel(name, direction, target) ==
    [name |-> name, direction |-> direction, target |-> target]

Model(fields, relationships) ==
    [fields |-> fields, relationships |-> relationships]

\* keys: the (app, model) pairs in Object.entries order, as "app.model" keys
KeySet(schema) == Range(schema.keys)

(***************************************************************************)
(* Utils.calculateNodeHeights                                              *)
(***************************************************************************)
Slice(fields, n) == SubSeq(fields, 1, Min2(Len(fields), n))

\* NodeHeightOfModel counting every field, without the slice
NodeHeightOfModelUnsliced(model) ==
    LET hasMore == Len(model.fields) > maxFields
    IN  headerHeight + paddingHeight + (Len(model.fields) * fieldHeight)
          + (IF hasMore THEN moreFieldsHeight ELSE 0)

NodeHeightOfModel(model) ==
    LET fields  == Slice(model.fields, maxFields)
        hasMore == Len(model.fields) > maxFields
    IN  headerHeight + paddingHeight + (Len(fields) * fieldHeight)
          + (IF hasMore THEN moreFieldsHeight ELSE 0)

calculateNodeHeights(schema) ==
    [k \in KeySet(schema) |-> NodeHeightOfModel(schema.models[k])]

\* nodeHeights[key] || 180
HeightOf(nodeHeights, key) ==
    IF key \in DOMAIN nodeHeights /\ nodeHeights[key] # 0
    THEN nodeHeights[key] ELSE defaultHeight

(***************************************************************************)
(* Layout.calculateHierarchicalLayout: node map and edges                  *)
(***************************************************************************)
NewNode(schema, nodeHeights, k) ==
    [key |-> k, model |-> schema.models[k],
     height |-> HeightOf(nodeHeights, k),
     connections |-> <<>>, outgoing |-> <<>>, incoming |-> <<>>,
     hasSelfConnection |-> FALSE]

\* AddRel adding an edge for every relationship, without edges.has(edgeKey)
AddRelEveryTime(g, key, rel) ==
    IF rel.direction # "forward" THEN g
    ELSE IF rel.target = key
    THEN [g EXCEPT !.nodeMap[key].hasSelfConnection = TRUE]
    ELSE IF rel.target \in DOMAIN g.nodeMap
    THEN LET t  == rel.target
             m1 == [g.nodeMap EXCEPT
                      ![key].connections = SetAdd(@, t),
                      ![key].outgoing = SetAdd(@, t)]
             m2 == [m1 EXCEPT
                      ![t].connections = SetAdd(@, key),
                      ![t].incoming = SetAdd(@, key)]
         IN  [nodeMap |-> m2, edges |-> Append(g.edges, <<key, t, rel.name>>)]
    ELSE g

\* one iteration of the inner loop over node.model.relationships;
\* g = [nodeMap, edges], edges the Set of edge keys source|target|rel.name
AddRel(g, key, rel) ==
    IF rel.direction # "forward" THEN g
    ELSE IF rel.target = key
    THEN [g EXCEPT !.nodeMap[key].hasSelfConnection = TRUE]
    ELSE IF rel.target \in DOMAIN g.nodeMap
    THEN LET t  == rel.target
             m1 == [g.nodeMap EXCEPT
                      ![key].connections = SetAdd(@, t),
                      ![key].outgoing = SetAdd(@, t)]
             m2 == [m1 EXCEPT
                      ![t].connections = SetAdd(@, key),
                      ![t].incoming = SetAdd(@, key)]
         IN  [nodeMap |-> m2, edges |-> SetAdd(g.edges, <<key, t, rel.name>>)]
    ELSE g

RECURSIVE AddRels(_, _, _, _)
AddRels(g, key, rels, i) ==
    IF i > Len(rels) THEN g
    ELSE AddRels(AddRel(g, key, rels[i]), key, rels, i + 1)

RECURSIVE AddNodes(_, _, _)
AddNodes(g, schema, i) ==
    IF i > Len(schema.keys) THEN g
    ELSE AddNodes(AddRels(g, schema.keys[i],
                          schema.models[schema.keys[i]].relationships, 1),
                  schema, i + 1)

BuildGraph(schema, nodeHeights) ==
    AddNodes([nodeMap |-> [k \in KeySet(schema) |-> NewNode(schema, nodeHeights, k)],
              edges |-> <<>>], schema, 1)

\* relationships.find(r => forward && r.name === relName && target matches)
FindRel(rels, target, relName) ==
    LET hits == {i \in DOMAIN rels :
                    /\ rels[i].direction = "forward"
                    /\ rels[i].name = relName
                    /\ rels[i].target = target}
    IN  rels[SetMin(hits)]

EdgeList(g) ==
    [i \in DOMAIN g.edges |->
        [source |-> g.edges[i][1], target |-> g.edges[i][2],
         rel |-> FindRel(g.nodeMap[g.edges[i][1]].model.relationships,
                         g.edges[i][2], g.edges[i][3])]]

(***************************************************************************)
(* Layout.calculateHierarchicalLayout: columns.  The Map columns is        *)
(* [order, col]: its keys in insertion order and its values.               *)
(***************************************************************************)
EmptyMap == [order |-> <<>>, col |-> <<>>]

\* Map.prototype.set
MapSet(c, k, v) == [order |-> SetAdd(c.order, k), col |-> (k :> v) @@ c.col]

MapHas(c, k) == k \in DOMAIN c.col

\* Base nodes (no outgoing) go in column 0
RECURSIVE BaseColumns(_, _, _, _)
BaseColumns(c, nodeMap, keys, i) ==
    IF i > Len(keys) THEN c
    ELSE BaseColumns(IF Len(nodeMap[keys[i]].outgoing) = 0
                     THEN MapSet(c, keys[i], 0) ELSE c,
                     nodeMap, keys, i + 1)

\* [...nodeMap.entries()].sort((a, b) => b incoming - a incoming)[0]: the sort
\* is stable, so the first node in map order among the most referenced ones
MostReferenced(nodeMap, keys) ==
    LET mx == SetMax({Len(nodeMap[k].incoming) : k \in Range(keys)})
    IN  keys[SetMin({i \in DOMAIN keys : Len(nodeMap[keys[i]].incoming) = mx})]

\* SeedColumns leaving a graph without base nodes unseeded
SeedColumnsNone(base, nodeMap, keys) == base

\* If no base nodes, pick most referenced
SeedColumns(base, nodeMap, keys) ==
    IF Len(base.order) = 0 /\ Len(keys) > 0
    THEN MapSet(base, MostReferenced(nodeMap, keys), 0)
    ELSE base

\* PropagateNode placing a node as soon as one of its dependencies has a column
PropagateNodeEager(c, nodeMap, key) ==
    LET out     == nodeMap[key].outgoing
        done    == {t \in Range(out) : MapHas(c, t)}
        maxCol  == SetMax({-1} \cup {c.col[t] : t \in done})
    IN  IF MapHas(c, key) THEN [c |-> c, changed |-> FALSE]
        ELSE IF done # {}
        THEN [c |-> MapSet(c, key, maxCol + 1), changed |-> TRUE]
        ELSE [c |-> c, changed |-> FALSE]

\* the body of the for loop inside while (changed), for one node
PropagateNode(c, nodeMap, key) ==
    LET out              == nodeMap[key].outgoing
        allDepsProcessed == \A t \in Range(out) : MapHas(c, t)
        maxCol           == SetMax({-1} \cup {c.col[t] : t \in Range(out)})
    IN  IF MapHas(c, key) THEN [c |-> c, changed |-> FALSE]
        ELSE IF allDepsProcessed /\ Len(out) > 0
        THEN [c |-> MapSet(c, key, maxCol + 1), changed |-> TRUE]
        ELSE [c |-> c, changed |-> FALSE]

RECURSIVE PropagatePass(_, _, _, _, _)
PropagatePass(c, nodeMap, keys, i, changed) ==
    IF i > Len(keys) THEN [c |-> c, changed |-> changed]
    ELSE LET r == PropagateNode(c, nodeMap, keys[i])
         IN  PropagatePass(r.c, nodeMap, keys, i + 1, changed \/ r.changed)

\* while (changed) { ... }; passes counts the executions of the loop body
RECURSIVE Propagate(_, _, _, _)
Propagate(c, nodeMap, keys, passes) ==
    LET Again(r) == IF r.changed THEN Propagate(r.c, nodeMap, keys, passes + 1)
                    ELSE [c |-> r.c, passes |-> passes + 1]
    IN  Again(PropagatePass(c, nodeMap, keys, 1, FALSE))

\* Remaining nodes (cycles/disconnected) go to column 0
RECURSIVE ResidualColumns(_, _, _)
ResidualColumns(c, keys, i) ==
    IF i > Len(keys) THEN c
    ELSE ResidualColumns(IF MapHas(c, keys[i]) THEN c ELSE MapSet(c, keys[i], 0),
                         keys, i + 1)

\* columns, with what the claims speak of: the fallback seed, the nodes left
\* unassigned at the fixpoint, the number of passes
AssignColumns(nodeMap, keys) ==
    LET Result(base, seeds, prop) ==
            [columns  |-> ResidualColumns(prop.c, keys, 1),
             seed     |-> Range(seeds.order) \ Range(base.order),
             residual |-> Range(keys) \ Range(prop.c.order),
             passes   |-> prop.passes]
        FromSeeds(base, seeds) == Result(base, seeds, Propagate(seeds, nodeMap, keys, 0))
        FromBase(base)         == FromSeeds(base, SeedColumns(base, nodeMap, keys))
    IN  FromBase(BaseColumns(EmptyMap, nodeMap, keys, 1))

(***************************************************************************)
(* Layout.calculateHierarchicalLayout: rows.  r = [rows, occupied, how]:   *)
(* the Map rows, the Set gridOccupied, and which branch of findBestRow     *)
(* placed each node.                                                       *)
(***************************************************************************)
\* Group nodes by column: the keys of one column, in insertion order of columns
NodesInCol(columns, c) ==
    SelectSeq(columns.order, LAMBDA k : columns.col[k] = c)

\* nodesInCol.sort((a, b) => b connections - a connections), a stable sort
SortByConnections(seq, nodeMap) ==
    LET conn(i) == Len(nodeMap[seq[i]].connections)
        rank(i) == Cardinality({j \in DOMAIN seq : conn(j) > conn(i)})
                     + Cardinality({j \in DOMAIN seq : j < i /\ conn(j) = conn(i)}) + 1
    IN  [p \in DOMAIN seq |-> seq[CHOOSE i \in DOMAIN seq : rank(i) = p]]

\* isCellFree building the cell key as `${row},${col}`
isCellFreeSwapped(r, col, row) == <<row, col>> \notin r.occupied

isCellFree(r, col, row) == <<col, row>> \notin r.occupied

\* canPlaceInRow without the co-location rules
canPlaceInRowCellOnly(nodeMap, columns, r, nodeKey, row, col) == isCellFree(r, col, row)

canPlaceInRow(nodeMap, columns, r, nodeKey, row, col) ==
    LET node            == nodeMap[nodeKey]
        connectionCount == Len(node.connections)
        nodesInRow      == {k \in DOMAIN r.rows : r.rows[k] = row}
    IN  IF ~isCellFree(r, col, row) THEN FALSE
        ELSE IF nodesInRow = {} THEN TRUE
        ELSE IF connectionCount <= 1
        THEN IF connectionCount = 0 THEN TRUE
             ELSE LET connectedTo        == node.connections[1]
                      connectedCol       == columns.col[connectedTo]
                      isAdjacent         == Abs(connectedCol - col) = 1
                      connectedInThisRow == /\ connectedTo \in DOMAIN r.rows
                                            /\ r.rows[connectedTo] = row
                  IN  isAdjacent \/ ~connectedInThisRow
        ELSE \A otherKey \in nodesInRow :
                LET other           == nodeMap[otherKey]
                    connectedToThis == otherKey \in Range(node.connections)
                    hasSelf         == other.hasSelfConnection \/ node.hasSelfConnection
                IN  connectedToThis \/ hasSelf

\* ConnectedRow never finding a row of a connection
ConnectedRowNone(nodeMap, columns, r, nodeKey, col, i) == -1

\* Try to find a row where connected nodes already exist: -1 when none admits
RECURSIVE ConnectedRow(_, _, _, _, _, _)
ConnectedRow(nodeMap, columns, r, nodeKey, col, i) ==
    LET conns == nodeMap[nodeKey].connections
    IN  IF i > Len(conns) THEN -1
        ELSE IF /\ conns[i] \in DOMAIN r.rows
                /\ canPlaceInRow(nodeMap, columns, r, nodeKey, r.rows[conns[i]], col)
        THEN r.rows[conns[i]]
        ELSE ConnectedRow(nodeMap, columns, r, nodeKey, col, i + 1)

\* findBestRow scanning one row fewer: r < nodeMap.size - 1
findBestRowShortScan(nodeMap, columns, r, nodeKey, col) ==
    LET size == Cardinality(DOMAIN nodeMap)
        Pick(connected, available) ==
            IF connected >= 0 THEN [row |-> connected, how |-> "connection"]
            ELSE IF available # {} THEN [row |-> SetMin(available), how |-> "scan"]
            ELSE [row |-> IF DOMAIN r.rows # {}
                          THEN SetMax({r.rows[k] : k \in DOMAIN r.rows}) + 1 ELSE 0,
                  how |-> "fallback"]
    IN  Pick(ConnectedRow(nodeMap, columns, r, nodeKey, col, 1),
             {q \in 0 .. size - 2 : canPlaceInRow(nodeMap, columns, r, nodeKey, q, col)})

findBestRow(nodeMap, columns, r, nodeKey, col) ==
    LET size == Cardinality(DOMAIN nodeMap)
        Pick(connected, available) ==
            IF connected >= 0 THEN [row |-> connected, how |-> "connection"]
            ELSE IF available # {} THEN [row |-> SetMin(available), how |-> "scan"]
            ELSE [row |-> IF DOMAIN r.rows # {}
                          THEN SetMax({r.rows[k] : k \in DOMAIN r.rows}) + 1 ELSE 0,
                  how |-> "fallback"]
    IN  Pick(ConnectedRow(nodeMap, columns, r, nodeKey, col, 1),
             {q \in 0 .. size - 1 : canPlaceInRow(nodeMap, columns, r, nodeKey, q, col)})

\* rows.set(nodeKey, row); gridOccupied.add(`${col},${row}`)
PlaceNode(nodeMap, columns, r, nodeKey) ==
    LET col == columns.col[nodeKey]
        Place(best) ==
            [rows     |-> (nodeKey :> best.row) @@ r.rows,
             occupied |-> r.occupied \cup {<<col, best.row>>},
             how      |-> (nodeKey :> best.how) @@ r.how]
    IN  Place(findBestRow(nodeMap, columns, r, nodeKey, col))

RECURSIVE PlaceNodes(_, _, _, _, _)
PlaceNodes(nodeMap, columns, r, nodes, i) ==
    IF i > Len(nodes) THEN r
    ELSE PlaceNodes(nodeMap, columns, PlaceNode(nodeMap, columns, r, nodes[i]),
                    nodes, i + 1)

\* Process columns from left to right, placing nodes in rows
RECURSIVE PlaceColumns(_, _, _, _)
PlaceColumns(nodeMap, columns, r, c) ==
    IF c > SetMax({-1} \cup {columns.col[k] : k \in DOMAIN columns.col}) THEN r
    ELSE PlaceColumns(nodeMap, columns,
                      PlaceNodes(nodeMap, columns, r,
                                 SortByConnections(NodesInCol(columns, c), nodeMap), 1),
                      c + 1)

AssignRows(nodeMap, columns) ==
    PlaceColumns(nodeMap, columns, [rows |-> <<>>, occupied |-> {}, how |-> <<>>], 0)

\* CompactRows leaving every row index as it is
CompactRowsIdentity(rows) == rows

\* Compact rows (remove gaps): rowMapping sends the i-th used row, sorted, to i
CompactRows(rows) ==
    LET usedRows        == {rows[k] : k \in DOMAIN rows}
        rowMapping(old) == Cardinality({u \in usedRows : u < old})
    IN  [k \in DOMAIN rows |-> rowMapping(rows[k])]

(***************************************************************************)
(* Layout.calculateHierarchicalLayout: positions                           *)
(***************************************************************************)
\* RowHeight taking the smallest node height of the row
RowHeightMin(rows, nodeHeights, row) ==
    LET hs == {HeightOf(nodeHeights, k) : k \in {q \in DOMAIN rows : rows[q] = row}}
    IN  IF hs = {} THEN defaultHeight ELSE SetMin(hs)

\* rowHeights.get(r) || 180
RowHeight(rows, nodeHeights, row) ==
    LET hs == {HeightOf(nodeHeights, k) : k \in {q \in DOMAIN rows : rows[q] = row}}
    IN  IF hs = {} THEN defaultHeight ELSE SetMax(hs)

RECURSIVE RowY(_, _, _)
RowY(rows, nodeHeights, row) ==
    IF row = 0 THEN firstRowY
    ELSE RowY(rows, nodeHeights, row - 1)
           + RowHeight(rows, nodeHeights, row - 1) + verticalGap

\* ColX stepping by the node width alone
ColXNoGap(columns, col) ==
    firstColX + Cardinality({c \in {columns.col[k] : k \in DOMAIN columns.col} : c < col})
                  * nodeWidth

\* colXPositions: the i-th of the sorted used columns is at 50 + i * (220 + 150)
ColX(columns, col) ==
    firstColX + Cardinality({c \in {columns.col[k] : k \in DOMAIN columns.col} : c < col})
                  * (nodeWidth + horizontalGap)

Pt(x, y) == [x |-> x, y |-> y]

Positions(columns, rows, nodeHeights) ==
    [k \in DOMAIN columns.col |->
        Pt(ColX(columns, columns.col[k]), RowY(rows, nodeHeights, rows[k]))]

\* every intermediate result of one run of calculateHierarchicalLayout
LayoutRun(sch, heights) ==
    LET Result(g, cols, r, rows) ==
            [nodeMap   |-> g.nodeMap,
             edges     |-> EdgeList(g),
             columns   |-> cols.columns.col,
             seed      |-> cols.seed,
             residual  |-> cols.residual,
             passes    |-> cols.passes,
             rawRows   |-> r.rows,
             how       |-> r.how,
             rows      |-> rows,
             positions |-> Positions(cols.columns, rows, heights)]
        Compacted(g, cols, r) == Result(g, cols, r, CompactRows(r.rows))
        Placed(g, cols)       == Compacted(g, cols, AssignRows(g.nodeMap, cols.columns))
        Graphed(g)            == Placed(g, AssignColumns(g.nodeMap, sch.keys))
    IN  Graphed(BuildGraph(sch, heights))

\* return { positions, nodeMap, edges: edgeList, hubNode }; hubNode is read nowhere
calculateHierarchicalLayout(sch, heights) ==
    LET Return(run) ==
            [positions |-> run.positions, nodeMap |-> run.nodeMap, edges |-> run.edges]
    IN  Return(LayoutRun(sch, heights))

(***************************************************************************)
(* Layout: field anchors                                                   *)
(***************************************************************************)
\* f.name === fieldName || f.name === fieldName + '_id' ||
\* f.name.replace('_id', '') === fieldName
FieldMatches(f, fieldName) ==
    \/ f.name = fieldName
    \/ (~fieldName.id /\ f.name = NameId(fieldName.stem))
    \/ Name(f.name.stem) = fieldName

getFieldYOffset(model, fieldName) ==
    LET fields == Slice(model.fields, 5)
        hits   == {i \in DOMAIN fields : FieldMatches(fields[i], fieldName)}
    IN  IF hits # {} THEN 50 + 8 + ((SetMin(hits) - 1) * 28) + 14
        ELSE 50 + 8 + 14

getPkYOffset(model) ==
    LET fields == Slice(model.fields, 5)
        hits   == {i \in DOMAIN fields : fields[i].primary_key}
    IN  IF hits # {} THEN 50 + 8 + ((SetMin(hits) - 1) * 28) + 14
        ELSE 50 + 8 + 14

(***************************************************************************)
(* Layout: path scoring                                                    *)
(***************************************************************************)
turnWeight == 50

crossingWeight == 200

nodeTouchWeight == 500

countTurns(points) ==
    IF Len(points) < 3 THEN 0
    ELSE Cardinality({i \in 2 .. Len(points) - 1 :
            LET dx1 == points[i].x - points[i - 1].x
                dy1 == points[i].y - points[i - 1].y
                dx2 == points[i + 1].x - points[i].x
                dy2 == points[i + 1].y - points[i].y
                wasHorizontal == Abs(dx1) > Abs(dy1)
                nowHorizontal == Abs(dx2) > Abs(dy2)
            IN  wasHorizontal # nowHorizontal})

ccw(A, B, C) == (C.y - A.y) * (B.x - A.x) > (B.y - A.y) * (C.x - A.x)

samePoint(a, b) == Abs(a.x - b.x) < 1 /\ Abs(a.y - b.y) < 1

segmentsIntersect(p1, p2, p3, p4) ==
    IF samePoint(p1, p3) \/ samePoint(p1, p4) \/ samePoint(p2, p3) \/ samePoint(p2, p4)
    THEN FALSE
    ELSE ccw(p1, p3, p4) # ccw(p2, p3, p4) /\ ccw(p1, p2, p3) # ccw(p1, p2, p4)

countCrossings(points, existingRoutes) ==
    LET pairs == UNION {{<<i, r, j>> : i \in 1 .. Len(points) - 1,
                                       j \in 1 .. Len(existingRoutes[r].points) - 1} :
                        r \in DOMAIN existingRoutes}
    IN  Cardinality({t \in pairs :
            segmentsIntersect(points[t[1]], points[t[1] + 1],
                              existingRoutes[t[2]].points[t[3]],
                              existingRoutes[t[2]].points[t[3] + 1])})

RECURSIVE PathLengthFrom(_, _)
PathLengthFrom(points, i) ==
    IF i >= Len(points) THEN 0
    ELSE Abs(points[i + 1].x - points[i].x) + Abs(points[i + 1].y - points[i].y)
           + PathLengthFrom(points, i + 1)

calculatePathLength(points) == PathLengthFrom(points, 1)

\* whether one segment of the path overlaps the bounds
TouchesBounds(points, bounds) ==
    \E i \in 1 .. Len(points) - 1 :
        LET p1   == points[i]
            p2   == points[i + 1]
            minX == Min2(p1.x, p2.x)
            maxX == Max2(p1.x, p2.x)
            minY == Min2(p1.y, p2.y)
            maxY == Max2(p1.y, p2.y)
        IN  /\ maxX > bounds.left /\ minX < bounds.right
            /\ maxY > bounds.top /\ minY < bounds.bottom

countNodeTouches(points, nodeBounds, excludeKeys) ==
    Cardinality({k \in DOMAIN nodeBounds \ excludeKeys :
                    TouchesBounds(points, nodeBounds[k])})

scorePath(points, existingRoutes, nodeBounds, excludeKeys) ==
    LET length      == calculatePathLength(points)
        turns       == countTurns(points)
        crossings   == countCrossings(points, existingRoutes)
        nodeTouches == countNodeTouches(points, nodeBounds, excludeKeys)
    IN  length + turns * turnWeight + crossings * crossingWeight
          + nodeTouches * nodeTouchWeight

(***************************************************************************)
(* Layout.calculateEdgeRoutes                                              *)
(***************************************************************************)
offsetStep == 12

outerMargin == 40

minHorizontalDist == 20

jogDistance == 30

\* Build bounding boxes as a Map (centerX and centerY are read nowhere)
NodeBounds(positions, nodeHeights) ==
    [k \in DOMAIN positions |->
        [left   |-> positions[k].x,
         right  |-> positions[k].x + nodeWidth,
         top    |-> positions[k].y,
         bottom |-> positions[k].y + HeightOf(nodeHeights, k)]]

\* buildPathPoints on coordinates counted in steps of 1 / unit pixel, so that
\* the 1 of Math.abs(srcY - tgtY) > 1 is unit steps; each step is one statement
\* of the function, on the points pushed so far
buildPathPointsIn(unit, srcX, srcY, tgtX, tgtY, midX) ==
    LET Close(points)  == IF points[Len(points)].x # tgtX \/ points[Len(points)].y # tgtY
                          THEN Append(points, Pt(tgtX, tgtY)) ELSE points
        Arrive(points) == Close(IF midX # tgtX
                                THEN Append(points, Pt(tgtX, tgtY)) ELSE points)
        Turn(points)   == Arrive(IF Abs(srcY - tgtY) > unit
                                 THEN Append(points, Pt(midX, tgtY)) ELSE points)
        Leave(points)  == Turn(IF srcX # midX
                               THEN Append(points, Pt(midX, srcY)) ELSE points)
    IN  Leave(<<Pt(srcX, srcY)>>)

\* buildPathPoints on whole pixels
buildPathPoints(srcX, srcY, tgtX, tgtY, midX) ==
    buildPathPointsIn(1, srcX, srcY, tgtX, tgtY, midX)

\* obstacles: the set of bounds of the nodes other than source and target
horizontalSegmentBlocked(obstacles, x1, x2, y) ==
    LET minX == Min2(x1, x2)
        maxX == Max2(x1, x2)
    IN  \E bounds \in obstacles :
            /\ y >= bounds.top /\ y <= bounds.bottom
            /\ maxX > bounds.left /\ minX < bounds.right

verticalSegmentBlocked(obstacles, y1, y2, x) ==
    LET minY == Min2(y1, y2)
        maxY == Max2(y1, y2)
    IN  \E bounds \in obstacles :
            /\ x >= bounds.left /\ x <= bounds.right
            /\ maxY > bounds.top /\ minY < bounds.bottom

\* TargetOffset without the centring term
TargetOffsetUncentred(targetCount, totalIncoming) == targetCount * offsetStep

\* (targetCount - (totalIncoming - 1) / 2) * offsetStep, exact: offsetStep is even
TargetOffset(targetCount, totalIncoming) ==
    ((2 * targetCount - (totalIncoming - 1)) * offsetStep) \div 2

\* what the loop body computes for one edge before it generates candidates;
\* targetCount is connectionOffsets.get(targetOffsetKey) || 0
EdgeContext(positions, edges, heights, nodeMap, edge, targetCount) ==
    LET totalIncoming == Cardinality({i \in DOMAIN edges :
                             /\ edges[i].target = edge.target
                             /\ edges[i].source # edges[i].target})
        excludeKeys   == {edge.source, edge.target}
        Context(nodeBounds, targetOffset) ==
            [nodeBounds   |-> nodeBounds,
             sBounds      |-> nodeBounds[edge.source],
             tBounds      |-> nodeBounds[edge.target],
             excludeKeys  |-> excludeKeys,
             obstacles    |-> {nodeBounds[k] : k \in DOMAIN nodeBounds \ excludeKeys},
             targetOffset |-> targetOffset,
             startY       |-> nodeBounds[edge.source].top
                                + getFieldYOffset(nodeMap[edge.source].model,
                                                  edge.rel.name),
             endY         |-> nodeBounds[edge.target].top
                                + getPkYOffset(nodeMap[edge.target].model)
                                + targetOffset,
             routeLeftX   |-> SetMin({nodeBounds[k].left : k \in DOMAIN nodeBounds})
                                - outerMargin,
             routeRightX  |-> SetMax({nodeBounds[k].right : k \in DOMAIN nodeBounds})
                                + outerMargin]
    IN  Context(NodeBounds(positions, heights), TargetOffset(targetCount, totalIncoming))

sideCombos(sBounds, tBounds) ==
    << [srcX |-> sBounds.right, tgtX |-> tBounds.left,  srcDir |-> "right", tgtDir |-> "left"],
       [srcX |-> sBounds.right, tgtX |-> tBounds.right, srcDir |-> "right", tgtDir |-> "right"],
       [srcX |-> sBounds.left,  tgtX |-> tBounds.left,  srcDir |-> "left",  tgtDir |-> "left"],
       [srcX |-> sBounds.left,  tgtX |-> tBounds.right, srcDir |-> "left",  tgtDir |-> "right"] >>

validForSource(combo, midX) ==
    IF combo.srcDir = "right" THEN midX >= combo.srcX ELSE midX <= combo.srcX

validForTarget(combo, midX) ==
    IF combo.tgtDir = "left" THEN midX <= combo.tgtX ELSE midX >= combo.tgtX

\* the three obstacle checks of an H-V-H route with its runway at midX
RunwayClear(ctx, combo, midX) ==
    /\ ~horizontalSegmentBlocked(ctx.obstacles, combo.srcX, midX, ctx.startY)
    /\ ~verticalSegmentBlocked(ctx.obstacles, ctx.startY, ctx.endY, midX)
    /\ ~horizontalSegmentBlocked(ctx.obstacles, midX, combo.tgtX, ctx.endY)

Option(points, kind, combo) == [points |-> points, kind |-> kind, combo |-> combo]

\* DirectOption never adding its candidate
DirectOptionNone(ctx, combo) == <<>>

\* Route 1: Direct path through midpoint.  midX = (srcX + tgtX) / 2 is exact for
\* the node X coordinates of this model, which are even
DirectOption(ctx, combo) ==
    LET midX               == (combo.srcX + combo.tgtX) \div 2
        hasHorizontalSpace == /\ Abs(combo.srcX - midX) >= minHorizontalDist
                              /\ Abs(midX - combo.tgtX) >= minHorizontalDist
    IN  IF /\ hasHorizontalSpace
           /\ validForSource(combo, midX) /\ validForTarget(combo, midX)
           /\ RunwayClear(ctx, combo, midX)
        THEN <<Option(buildPathPoints(combo.srcX, ctx.startY, combo.tgtX, ctx.endY, midX),
                      "direct", combo)>>
        ELSE <<>>

\* Route 2: Go around via left side
OuterLeftOption(ctx, combo) ==
    IF /\ combo.srcDir = "left" /\ combo.tgtDir = "left"
       /\ RunwayClear(ctx, combo, ctx.routeLeftX)
    THEN <<Option(buildPathPoints(combo.srcX, ctx.startY, combo.tgtX, ctx.endY,
                                  ctx.routeLeftX), "outerLeft", combo)>>
    ELSE <<>>

\* Route 3: Go around via right side
OuterRightOption(ctx, combo) ==
    IF /\ combo.srcDir = "right" /\ combo.tgtDir = "right"
       /\ RunwayClear(ctx, combo, ctx.routeRightX)
    THEN <<Option(buildPathPoints(combo.srcX, ctx.startY, combo.tgtX, ctx.endY,
                                  ctx.routeRightX), "outerRight", combo)>>
    ELSE <<>>

JogPoints(ctx, combo, runX) ==
    << Pt(combo.srcX, ctx.startY), Pt(runX, ctx.startY),
       Pt(runX, ctx.endY), Pt(combo.tgtX, ctx.endY) >>

\* Route 4: Simple L-shaped path going directly toward target
ShortJogOption(ctx, combo) ==
    LET jogOutX == IF combo.srcDir = "right" THEN combo.srcX + jogDistance
                   ELSE combo.srcX - jogDistance
    IN  <<Option(JogPoints(ctx, combo, jogOutX), "shortJog", combo)>>

\* Route 5: Go wide around all nodes via the outer edges
WideJogOption(ctx, combo) ==
    LET wideX == IF combo.srcDir = "right" THEN ctx.routeRightX ELSE ctx.routeLeftX
    IN  <<Option(JogPoints(ctx, combo, wideX), "wideJog", combo)>>

ComboOptions(ctx, combo) ==
    DirectOption(ctx, combo) \o OuterLeftOption(ctx, combo)
      \o OuterRightOption(ctx, combo) \o ShortJogOption(ctx, combo)
      \o WideJogOption(ctx, combo)

routeOptions(ctx) ==
    LET combos == sideCombos(ctx.sBounds, ctx.tBounds)
    IN  ComboOptions(ctx, combos[1]) \o ComboOptions(ctx, combos[2])
          \o ComboOptions(ctx, combos[3]) \o ComboOptions(ctx, combos[4])

\* BestOption with the comparison of the scoring loop turned round
BestOptionWorst(options, routes, ctx) ==
    LET First(winners) == IF winners = {} THEN 0 ELSE SetMin(winners)
        Highest(score) == First({i \in DOMAIN options :
                                    \A j \in DOMAIN options : score[i] >= score[j]})
    IN  Highest([i \in DOMAIN options |->
                    scorePath(options[i].points, routes, ctx.nodeBounds,
                              ctx.excludeKeys)])

\* BestOption keeping the last one of the lowest score
BestOptionLast(options, routes, ctx) ==
    LET Last(winners)  == IF winners = {} THEN 0 ELSE SetMax(winners)
        Lowest(score)  == Last({i \in DOMAIN options :
                                   \A j \in DOMAIN options : score[i] <= score[j]})
    IN  Lowest([i \in DOMAIN options |->
                   scorePath(options[i].points, routes, ctx.nodeBounds,
                             ctx.excludeKeys)])

\* the option the scoring loop keeps: the first one of the lowest score (0: none)
BestOption(options, routes, ctx) ==
    LET First(winners) == IF winners = {} THEN 0 ELSE SetMin(winners)
        Lowest(score)  == First({i \in DOMAIN options :
                                    \A j \in DOMAIN options : score[i] <= score[j]})
    IN  Lowest([i \in DOMAIN options |->
                   scorePath(options[i].points, routes, ctx.nodeBounds,
                             ctx.excludeKeys)])

\* Fallback if no valid routes found - use routeRightX to go around
FallbackRoute(ctx) ==
    buildPathPoints(ctx.sBounds.right, ctx.startY, ctx.tBounds.right, ctx.endY,
                    ctx.routeRightX)

bestRoute(ctx, routes) ==
    LET Emit(options, best) == IF best = 0 THEN FallbackRoute(ctx)
                               ELSE options[best].points
        Choose(options)     == Emit(options, BestOption(options, routes, ctx))
    IN  Choose(routeOptions(ctx))

\* EdgeSkipped giving up on an edge between two nodes at the same X
EdgeSkippedStacked(positions, nodeMap, edge) ==
    \/ edge.source = edge.target
    \/ edge.source \notin DOMAIN positions \/ edge.target \notin DOMAIN positions
    \/ edge.source \notin DOMAIN nodeMap \/ edge.target \notin DOMAIN nodeMap
    \/ positions[edge.source].x = positions[edge.target].x

\* the continue statements at the head of the loop body
EdgeSkipped(positions, nodeMap, edge) ==
    \/ edge.source = edge.target
    \/ edge.source \notin DOMAIN positions \/ edge.target \notin DOMAIN positions
    \/ edge.source \notin DOMAIN nodeMap \/ edge.target \notin DOMAIN nodeMap

\* connectionOffsets.get(`${edge.target}:target`) || 0 when edges[i] is reached
TargetCount(positions, edges, nodeMap, i) ==
    Cardinality({j \in 1 .. i - 1 :
                    /\ edges[j].target = edges[i].target
                    /\ ~EdgeSkipped(positions, nodeMap, edges[j])})

RECURSIVE RouteEdges(_, _, _, _, _, _)
RouteEdges(positions, edges, nodeHeights, nodeMap, routes, i) ==
    IF i > Len(edges) THEN routes
    ELSE IF EdgeSkipped(positions, nodeMap, edges[i])
    THEN RouteEdges(positions, edges, nodeHeights, nodeMap, routes, i + 1)
    ELSE RouteEdges(positions, edges, nodeHeights, nodeMap,
                    Append(routes,
                           [edge   |-> edges[i],
                            points |-> bestRoute(EdgeContext(positions, edges, nodeHeights,
                                                             nodeMap, edges[i],
                                                             TargetCount(positions, edges,
                                                                         nodeMap, i)),
                                                 routes)]),
                    i + 1)

calculateEdgeRoutes(positions, edges, nodeHeights, nodeMap) ==
    RouteEdges(positions, edges, nodeHeights, nodeMap, <<>>, 1)

(***************************************************************************)
(* SchemaViewer (canvas.js): state                                         *)
(*                                                                         *)
(* transform is held as its scale, in thousandths (1000 is scale 1); the   *)
(* pan offsets transform.x, transform.y and panStart only place the drawing*)
(* on the screen.  A mouse event carries the pointer in layout coordinates,*)
(* (clientX - transform.x) / transform.scale, which the offsets and the    *)
(* scale turn any client coordinate into.                                  *)
(* layoutData is [nodeMap, edges]: layoutData.positions is the same Map    *)
(* object as nodePositions.                                                *)
(* pendingSchema and pendingDetail are the fetches whose await has not     *)
(* resumed yet; domNodes are the .model-node elements of the canvas, which *)
(* carry the click and mousedown listeners; threw names the function whose *)
(* read of this.schema.apps ended the last handler with a TypeError.       *)
(***************************************************************************)
VARIABLES schema, selectedModel, visibleNodes, scale, nodePositions, nodeHeights,
          layoutData, edgeRoutes, isDragging, dragTarget, dragOffset, isPanning,
          pendingSchema, pendingDetail, panelVisible, detailShown, domNodes,
          zoomSteps, threw

vars == <<schema, selectedModel, visibleNodes, scale, nodePositions, nodeHeights,
          layoutData, edgeRoutes, isDragging, dragTarget, dragOffset, isPanning,
          pendingSchema, pendingDetail, panelVisible, detailShown, domNodes,
          zoomSteps, threw>>

\* the null of selectedModel and dragTarget, among keys
NoKey == "null"

\* visibleNodes = new Set(...)
VisibleSet(S) == [keys |-> S]

\* in-flight schema fetches, in-flight detail fetches, zoom calls between two
\* fitView calls
MaxPending == 2

MaxDetail == 1

MaxZoomSteps == 1

(***************************************************************************)
(* Schemas the server answers with                                         *)
(***************************************************************************)
PK == Field(Name("id"), TRUE)

Fk(name, target) == Rel(Name(name), "forward", target)

Schema(keys, models) == [keys |-> keys, models |-> models]

\* one FK from blog.Post to auth.User, each with one PK field
TwoNode ==
    Schema(<<"auth.User", "blog.Post">>,
           [k \in {"auth.User", "blog.Post"} |->
               IF k = "auth.User" THEN Model(<<PK>>, <<>>)
               ELSE Model(<<PK>>, <<Fk("author", "auth.User")>>)])

\* the same project with the blog app filtered out
OneNode == Schema(<<"auth.User">>, [k \in {"auth.User"} |-> Model(<<PK>>, <<>>)])

\* A -> B and an unrelated node O, one field each
Obstacle ==
    Schema(<<"g.A", "g.O", "g.B">>,
           [k \in {"g.A", "g.O", "g.B"} |->
               IF k = "g.A" THEN Model(<<PK>>, <<Fk("b", "g.B")>>)
               ELSE Model(<<PK>>, <<>>)])

\* a model without fields pointing to a model with two fields, and to itself
ZeroField ==
    Schema(<<"x.Tag", "x.Item">>,
           [k \in {"x.Tag", "x.Item"} |->
               IF k = "x.Tag"
               THEN Model(<<>>, <<Fk("item", "x.Item"), Fk("parent", "x.Tag")>>)
               ELSE Model(<<Field(Name("name"), FALSE), PK>>, <<>>)])

(***************************************************************************)
(* SchemaViewer: rendering and fitView                                     *)
(***************************************************************************)
isNodeVisible(vis, key) == vis = Null \/ key \in vis.keys

\* the nodes renderNodes draws
RenderedNodes(sch, pos, vis) ==
    {k \in KeySet(sch) : isNodeVisible(vis, k) /\ k \in DOMAIN pos}

\* renderCanvas: renderSelfReferentialEdges reads this.schema.apps first
RenderCanvas(sch, pos, vis) ==
    IF sch = Null
    THEN threw' = "renderCanvas" /\ domNodes' = domNodes
    ELSE threw' = "" /\ domNodes' = RenderedNodes(sch, pos, vis)

\* canvas.getBoundingClientRect(): the size of the canvas element on the page
canvasRect == [width |-> 1200, height |-> 800]

fitPadding == 50

detailPanelWidth == 350

maxFitScale == 1500

\* the scale fitView computes, in thousandths
FitScale(pos, heights, vis, panel) ==
    LET shown           == {k \in DOMAIN pos : isNodeVisible(vis, k)}
        minX            == SetMin({pos[k].x : k \in shown})
        minY            == SetMin({pos[k].y : k \in shown})
        maxX            == SetMax({pos[k].x + nodeWidth : k \in shown})
        maxY            == SetMax({pos[k].y + HeightOf(heights, k) : k \in shown})
        contentWidth    == maxX - minX
        contentHeight   == maxY - minY
        availableWidth  == canvasRect.width - (IF panel THEN detailPanelWidth ELSE 0)
                             - fitPadding * 2
        availableHeight == canvasRect.height - fitPadding * 2
        scaleX          == (availableWidth * 1000) \div contentWidth
        scaleY          == (availableHeight * 1000) \div contentHeight
    IN  IF shown = {} THEN 1000
        ELSE Min2(Min2(scaleX, scaleY), maxFitScale)

\* fitView, given the state it runs in
FitView(sch, pos, heights, vis, panel) ==
    /\ scale' = FitScale(pos, heights, vis, panel)
    /\ zoomSteps' = 0
    /\ RenderCanvas(sch, pos, vis)

(***************************************************************************)
(* SchemaViewer: handlers                                                  *)
(***************************************************************************)
\* init(): bindEvents() has run and fetchSchema() waits for its response
Init ==
    /\ schema = Null
    /\ selectedModel = NoKey
    /\ visibleNodes = Null
    /\ scale = 1000
    /\ nodePositions = <<>>
    /\ nodeHeights = <<>>
    /\ layoutData = Null
    /\ edgeRoutes = <<>>
    /\ isDragging = FALSE
    /\ dragTarget = NoKey
    /\ dragOffset = Pt(0, 0)
    /\ isPanning = FALSE
    /\ pendingSchema = 1
    /\ pendingDetail = <<>>
    /\ panelVisible = FALSE
    /\ detailShown = NoKey
    /\ domNodes = {}
    /\ zoomSteps = 0
    /\ threw = ""

\* calculateLayout() on schema sch
CalculateLayout(sch) ==
    LET Store(layout) ==
            /\ layoutData' = [nodeMap |-> layout.nodeMap, edges |-> layout.edges]
            /\ nodePositions' = layout.positions
    IN  /\ nodeHeights' = calculateNodeHeights(sch)
        /\ Store(calculateHierarchicalLayout(sch, nodeHeights'))
        /\ edgeRoutes' = calculateEdgeRoutes(nodePositions', layoutData'.edges,
                                             nodeHeights', layoutData'.nodeMap)

\* showDjangoCheckbox change: fetchSchema() up to its first await
FetchSchema ==
    /\ pendingSchema < MaxPending
    /\ pendingSchema' = pendingSchema + 1
    /\ threw' = ""
    /\ UNCHANGED <<schema, selectedModel, visibleNodes, scale, nodePositions,
                   nodeHeights, layoutData, edgeRoutes, isDragging, dragTarget,
                   dragOffset, isPanning, pendingDetail, panelVisible, detailShown,
                   domNodes, zoomSteps>>

\* FetchSchemaComplete dropping a response that arrives after another one
FetchSchemaCompleteFirstWins(response) ==
    /\ pendingSchema > 0
    /\ pendingSchema' = pendingSchema - 1
    /\ schema' = IF schema = Null THEN response ELSE schema
    /\ CalculateLayout(schema')
    /\ visibleNodes' = Null
    /\ FitView(schema', nodePositions', nodeHeights', Null, panelVisible)
    /\ UNCHANGED <<selectedModel, isDragging, dragTarget, dragOffset, isPanning,
                   pendingDetail, panelVisible, detailShown>>

\* fetchSchema() from this.schema = await response.json() to its end
FetchSchemaComplete(response) ==
    /\ pendingSchema > 0
    /\ pendingSchema' = pendingSchema - 1
    /\ schema' = response
    /\ CalculateLayout(response)
    /\ visibleNodes' = Null
    /\ FitView(response, nodePositions', nodeHeights', Null, panelVisible)
    /\ UNCHANGED <<selectedModel, isDragging, dragTarget, dragOffset, isPanning,
                   pendingDetail, panelVisible, detailShown>>

\* the fetch rejects: the rest of fetchSchema() never runs
FetchSchemaFail ==
    /\ pendingSchema > 0
    /\ pendingSchema' = pendingSchema - 1
    /\ UNCHANGED <<schema, selectedModel, visibleNodes, scale, nodePositions,
                   nodeHeights, layoutData, edgeRoutes, isDragging, dragTarget,
                   dragOffset, isPanning, pendingDetail, panelVisible, detailShown,
                   domNodes, zoomSteps, threw>>

\* RecalculateLayout keeping the positions it finds and routing the edges again
RecalculateLayoutInPlace ==
    IF schema = Null
    THEN /\ threw' = "calculateNodeHeights"
         /\ UNCHANGED <<schema, selectedModel, visibleNodes, scale, nodePositions,
                        nodeHeights, layoutData, edgeRoutes, isDragging, dragTarget,
                        dragOffset, isPanning, pendingSchema, pendingDetail,
                        panelVisible, detailShown, domNodes, zoomSteps>>
    ELSE /\ edgeRoutes' = calculateEdgeRoutes(nodePositions, layoutData.edges,
                                              nodeHeights, layoutData.nodeMap)
         /\ FitView(schema, nodePositions, nodeHeights, visibleNodes, panelVisible)
         /\ UNCHANGED <<schema, selectedModel, visibleNodes, nodePositions,
                        nodeHeights, layoutData, isDragging, dragTarget,
                        dragOffset, isPanning, pendingSchema, pendingDetail,
                        panelVisible, detailShown>>

\* re-layout click: recalculateLayout(); calculateNodeHeights reads schema.apps
RecalculateLayout ==
    IF schema = Null
    THEN /\ threw' = "calculateNodeHeights"
         /\ UNCHANGED <<schema, selectedModel, visibleNodes, scale, nodePositions,
                        nodeHeights, layoutData, edgeRoutes, isDragging, dragTarget,
                        dragOffset, isPanning, pendingSchema, pendingDetail,
                        panelVisible, detailShown, domNodes, zoomSteps>>
    ELSE /\ CalculateLayout(schema)
         /\ FitView(schema, nodePositions', nodeHeights', visibleNodes, panelVisible)
         /\ UNCHANGED <<schema, selectedModel, visibleNodes, isDragging, dragTarget,
                        dragOffset, isPanning, pendingSchema, pendingDetail,
                        panelVisible, detailShown>>

\* zoom(factor), factor = num / den
Zoom(num, den) ==
    /\ zoomSteps < MaxZoomSteps
    /\ zoomSteps' = zoomSteps + 1
    /\ scale' = Max2(300, Min2(3000, (scale * num) \div den))
    /\ RenderCanvas(schema, nodePositions, visibleNodes)
    /\ UNCHANGED <<schema, selectedModel, visibleNodes, nodePositions, nodeHeights,
                   layoutData, edgeRoutes, isDragging, dragTarget, dragOffset,
                   isPanning, pendingSchema, pendingDetail, panelVisible, detailShown>>

\* zoom-in click: zoom(1.2)
ZoomIn == Zoom(12, 10)

\* zoom-out click: zoom(1 / 1.2)
ZoomOut == Zoom(10, 12)

\* onCanvasWheel: zoom(0.9) or zoom(1.1)
OnCanvasWheel == \E num \in {9, 11} : Zoom(num, 10)

\* fit-view click
FitViewClick ==
    /\ FitView(schema, nodePositions, nodeHeights, visibleNodes, panelVisible)
    /\ UNCHANGED <<schema, selectedModel, visibleNodes, nodePositions, nodeHeights,
                   layoutData, edgeRoutes, isDragging, dragTarget, dragOffset,
                   isPanning, pendingSchema, pendingDetail, panelVisible, detailShown>>

\* search input: renderModelList() reads this.schema.apps
SearchInput ==
    /\ threw' = IF schema = Null THEN "renderModelList" ELSE ""
    /\ UNCHANGED <<schema, selectedModel, visibleNodes, scale, nodePositions,
                   nodeHeights, layoutData, edgeRoutes, isDragging, dragTarget,
                   dragOffset, isPanning, pendingSchema, pendingDetail, panelVisible,
                   detailShown, domNodes, zoomSteps>>

\* onCanvasMouseDown on the canvas background
OnCanvasMouseDown ==
    /\ isPanning' = TRUE
    /\ threw' = ""
    /\ UNCHANGED <<schema, selectedModel, visibleNodes, scale, nodePositions,
                   nodeHeights, layoutData, edgeRoutes, isDragging, dragTarget,
                   dragOffset, pendingSchema, pendingDetail, panelVisible,
                   detailShown, domNodes, zoomSteps>>

\* mousedown on the node element of key, the pointer at p
NodeMouseDown(key, p) ==
    /\ key \in domNodes
    /\ isDragging' = TRUE
    /\ dragTarget' = key
    /\ dragOffset' = Pt(p.x - nodePositions[key].x, p.y - nodePositions[key].y)
    /\ threw' = ""
    /\ UNCHANGED <<schema, selectedModel, visibleNodes, scale, nodePositions,
                   nodeHeights, layoutData, edgeRoutes, isPanning, pendingSchema,
                   pendingDetail, panelVisible, detailShown, domNodes, zoomSteps>>

\* onMouseMove running the layout again before it moves the dragged node
OnMouseMoveRelayout(p) ==
    IF isPanning
    THEN /\ RenderCanvas(schema, nodePositions, visibleNodes)
         /\ UNCHANGED <<schema, selectedModel, visibleNodes, scale, nodePositions,
                        nodeHeights, layoutData, edgeRoutes, isDragging, dragTarget,
                        dragOffset, isPanning, pendingSchema, pendingDetail,
                        panelVisible, detailShown, zoomSteps>>
    ELSE IF isDragging /\ dragTarget # NoKey
    THEN /\ nodePositions' = (dragTarget :> Pt(p.x - dragOffset.x, p.y - dragOffset.y))
                               @@ calculateHierarchicalLayout(schema, nodeHeights).positions
         /\ edgeRoutes' = calculateEdgeRoutes(nodePositions', layoutData.edges,
                                              nodeHeights, layoutData.nodeMap)
         /\ RenderCanvas(schema, nodePositions', visibleNodes)
         /\ UNCHANGED <<schema, selectedModel, visibleNodes, scale, nodeHeights,
                        layoutData, isDragging, dragTarget, dragOffset, isPanning,
                        pendingSchema, pendingDetail, panelVisible, detailShown,
                        zoomSteps>>
    ELSE /\ threw' = ""
         /\ UNCHANGED <<schema, selectedModel, visibleNodes, scale, nodePositions,
                        nodeHeights, layoutData, edgeRoutes, isDragging, dragTarget,
                        dragOffset, isPanning, pendingSchema, pendingDetail,
                        panelVisible, detailShown, domNodes, zoomSteps>>

\* onMouseMove, the pointer at p
OnMouseMove(p) ==
    IF isPanning
    THEN /\ RenderCanvas(schema, nodePositions, visibleNodes)
         /\ UNCHANGED <<schema, selectedModel, visibleNodes, scale, nodePositions,
                        nodeHeights, layoutData, edgeRoutes, isDragging, dragTarget,
                        dragOffset, isPanning, pendingSchema, pendingDetail,
                        panelVisible, detailShown, zoomSteps>>
    ELSE IF isDragging /\ dragTarget # NoKey
    THEN /\ nodePositions' = (dragTarget :> Pt(p.x - dragOffset.x, p.y - dragOffset.y))
                               @@ nodePositions
         /\ edgeRoutes' = calculateEdgeRoutes(nodePositions', layoutData.edges,
                                              nodeHeights, layoutData.nodeMap)
         /\ RenderCanvas(schema, nodePositions', visibleNodes)
         /\ UNCHANGED <<schema, selectedModel, visibleNodes, scale, nodeHeights,
                        layoutData, isDragging, dragTarget, dragOffset, isPanning,
                        pendingSchema, pendingDetail, panelVisible, detailShown,
                        zoomSteps>>
    ELSE /\ threw' = ""
         /\ UNCHANGED <<schema, selectedModel, visibleNodes, scale, nodePositions,
                        nodeHeights, layoutData, edgeRoutes, isDragging, dragTarget,
                        dragOffset, isPanning, pendingSchema, pendingDetail,
                        panelVisible, detailShown, domNodes, zoomSteps>>

OnMouseUp ==
    /\ isPanning' = FALSE
    /\ isDragging' = FALSE
    /\ dragTarget' = NoKey
    /\ threw' = ""
    /\ UNCHANGED <<schema, selectedModel, visibleNodes, scale, nodePositions,
                   nodeHeights, layoutData, edgeRoutes, dragOffset, pendingSchema,
                   pendingDetail, panelVisible, detailShown, domNodes, zoomSteps>>

\* the keys new Set([key]) is extended with
ConnectionsOf(key) ==
    IF key \in DOMAIN layoutData.nodeMap
    THEN Range(layoutData.nodeMap[key].connections) ELSE {}

\* click on a node element or on a sidebar item: selectModel() up to its await
SelectModel(key) ==
    /\ schema # Null
    /\ key \in domNodes \cup KeySet(schema)
    /\ Len(pendingDetail) < MaxDetail
    /\ selectedModel' = key
    /\ visibleNodes' = VisibleSet({key} \cup ConnectionsOf(key))
    /\ pendingDetail' = Append(pendingDetail, key)
    /\ threw' = ""
    /\ UNCHANGED <<schema, scale, nodePositions, nodeHeights, layoutData, edgeRoutes,
                   isDragging, dragTarget, dragOffset, isPanning, pendingSchema,
                   panelVisible, detailShown, domNodes, zoomSteps>>

Remove(seq, i) == SubSeq(seq, 1, i - 1) \o SubSeq(seq, i + 1, Len(seq))

\* selectModel() from const model = await response.json() to its end
SelectModelComplete(i) ==
    /\ i \in DOMAIN pendingDetail
    /\ pendingDetail' = Remove(pendingDetail, i)
    /\ detailShown' = pendingDetail[i]
    /\ panelVisible' = TRUE
    /\ FitView(schema, nodePositions, nodeHeights, visibleNodes, TRUE)
    /\ UNCHANGED <<schema, selectedModel, visibleNodes, nodePositions, nodeHeights,
                   layoutData, edgeRoutes, isDragging, dragTarget, dragOffset,
                   isPanning, pendingSchema>>

\* the detail fetch rejects
SelectModelFail(i) ==
    /\ i \in DOMAIN pendingDetail
    /\ pendingDetail' = Remove(pendingDetail, i)
    /\ UNCHANGED <<schema, selectedModel, visibleNodes, scale, nodePositions,
                   nodeHeights, layoutData, edgeRoutes, isDragging, dragTarget,
                   dragOffset, isPanning, pendingSchema, panelVisible, detailShown,
                   domNodes, zoomSteps, threw>>

\* close-detail click
CloseDetail ==
    /\ panelVisible' = FALSE
    /\ selectedModel' = NoKey
    /\ visibleNodes' = Null
    /\ FitView(schema, nodePositions, nodeHeights, Null, FALSE)
    /\ UNCHANGED <<schema, nodePositions, nodeHeights, layoutData, edgeRoutes,
                   isDragging, dragTarget, dragOffset, isPanning, pendingSchema,
                   pendingDetail, detailShown>>

(***************************************************************************)
(* Pointers of the mouse events                                            *)
(***************************************************************************)
\* where on the node the pointer goes down, from the node's top-left corner
GrabOffsets == {Pt(0, 0), Pt(110, 40)}

Grab(key, grab) == Pt(nodePositions[key].x + grab.x, nodePositions[key].y + grab.y)

\* the pointer that drops the dragged node at g
Drop(g) == Pt(g.x + dragOffset.x, g.y + dragOffset.y)

(***************************************************************************)
(* Start-up: the fetch started by init() against the toolbar buttons, the  *)
(* wheel, the search box and panning                                       *)
(***************************************************************************)
StartResponses == {TwoNode, OneNode, Obstacle, ZeroField}

NextStart ==
    \/ \E r \in StartResponses : FetchSchemaComplete(r)
    \/ FetchSchemaFail
    \/ RecalculateLayout
    \/ ZoomIn
    \/ ZoomOut
    \/ OnCanvasWheel
    \/ FitViewClick
    \/ SearchInput
    \/ OnCanvasMouseDown
    \/ OnMouseMove(Pt(0, 0))
    \/ OnMouseUp

SpecStart == Init /\ [][NextStart]_vars

(***************************************************************************)
(* Refetching: schema fetches in flight against drag, re-layout, selection *)
(***************************************************************************)
FetchResponses == {TwoNode, OneNode}

FetchGrid == {Pt(420, 51)}

FetchKeys == UNION {KeySet(r) : r \in FetchResponses}

NextFetch ==
    \/ FetchSchema
    \/ \E r \in FetchResponses : FetchSchemaComplete(r)
    \/ FetchSchemaFail
    \/ RecalculateLayout
    \/ \E key \in domNodes : NodeMouseDown(key, Grab(key, Pt(0, 0)))
    \/ \E g \in FetchGrid : OnMouseMove(Drop(g))
    \/ OnMouseUp
    \/ \E key \in FetchKeys : SelectModel(key)
    \/ \E i \in DOMAIN pendingDetail : SelectModelComplete(i)
    \/ \E i \in DOMAIN pendingDetail : SelectModelFail(i)
    \/ CloseDetail

SpecFetch == Init /\ [][NextFetch]_vars

(***************************************************************************)
(* Refetching without drags: the responses arrive in any order, whatever   *)
(* the order of the requests, against re-layout and selection              *)
(***************************************************************************)
RefetchResponses == {TwoNode, OneNode, ZeroField}

RefetchKeys == UNION {KeySet(r) : r \in RefetchResponses}

NextRefetch ==
    \/ FetchSchema
    \/ \E r \in RefetchResponses : FetchSchemaComplete(r)
    \/ FetchSchemaFail
    \/ RecalculateLayout
    \/ \E key \in RefetchKeys : SelectModel(key)
    \/ \E i \in DOMAIN pendingDetail : SelectModelComplete(i)
    \/ \E i \in DOMAIN pendingDetail : SelectModelFail(i)
    \/ CloseDetail

SpecRefetch == Init /\ [][NextRefetch]_vars

(***************************************************************************)
(* Layout and drag alone: schemas of up to three nodes, nodes dropped on   *)
(* the cells of the first row and one pixel below them                     *)
(***************************************************************************)
DragResponses == {TwoNode, Obstacle, ZeroField}

DragGrid == {Pt(x, y) : x \in {50, 420, 790}, y \in {50, 51}}

NextDrag ==
    \/ \E r \in DragResponses : FetchSchemaComplete(r)
    \/ RecalculateLayout
    \/ \E key \in domNodes : \E grab \in GrabOffsets : NodeMouseDown(key, Grab(key, grab))
    \/ \E g \in DragGrid : OnMouseMove(Drop(g))
    \/ OnMouseUp

SpecDrag == Init /\ [][NextDrag]_vars

(***************************************************************************)
(* Layout of every small graph: up to MaxNodes models, up to MaxRels       *)
(* forward relationships between them (self-references included), in every *)
(* order; the models have 1, 0, 6, 2, 5, 3 fields.  And the diamond of     *)
(* four models, in every order of the models                               *)
(***************************************************************************)
MaxNodes == 3

MaxRels == 3

GraphKeys == <<"g.A", "g.B", "g.C", "g.D", "g.E", "g.F">>

GraphFieldCounts == <<1, 0, 6, 2, 5, 3>>

GraphFieldNames == <<"id", "f2", "f3", "f4", "f5", "f6">>

GraphFields(count) == [j \in 1 .. count |-> Field(Name(GraphFieldNames[j]), j = 1)]

\* links: a sequence of <<source index, target index>>
GraphRels(links, source) ==
    LET own == SelectSeq(links, LAMBDA l : l[1] = source)
    IN  [j \in DOMAIN own |-> Fk("fk", GraphKeys[own[j][2]])]

GraphSchema(n, links) ==
    Schema(SubSeq(GraphKeys, 1, n),
           [k \in {GraphKeys[i] : i \in 1 .. n} |->
               LET i == CHOOSE i \in 1 .. n : GraphKeys[i] = k
               IN  Model(GraphFields(GraphFieldCounts[i]), GraphRels(links, i))])

GraphSchemas ==
    {GraphSchema(n, links) :
        n \in 0 .. MaxNodes,
        links \in UNION {[1 .. m -> (1 .. MaxNodes) \X (1 .. MaxNodes)] : m \in 0 .. MaxRels}}

\* the diamond d.D -> d.B, d.D -> d.C, d.B -> d.A, d.C -> d.A, its four models
\* in the given order and d.D with the given relationships
DiamondSchema(order, relsD) ==
    Schema(order,
           [k \in Range(order) |->
               IF k = "d.D" THEN Model(<<PK>>, relsD)
               ELSE IF k = "d.A" THEN Model(<<PK>>, <<>>)
               ELSE Model(<<PK>>, <<Fk("a", "d.A")>>)])

DiamondSchemas ==
    {DiamondSchema(order, relsD) :
        order \in {o \in [1 .. 4 -> {"d.A", "d.B", "d.C", "d.D"}] :
                      \A i, j \in 1 .. 4 : i # j => o[i] # o[j]},
        relsD \in {<<Fk("b", "d.B"), Fk("c", "d.C")>>,
                   <<Fk("c", "d.C"), Fk("b", "d.B")>>}}

NextLayout ==
    \/ \E r \in GraphSchemas \cup DiamondSchemas : FetchSchemaComplete(r)
    \/ RecalculateLayout

SpecLayout == Init /\ [][NextLayout]_vars

(***************************************************************************)
(* Field counts: two models with 0 .. MaxFieldCount fields each, h.N with  *)
(* or without a foreign key to h.M                                         *)
(***************************************************************************)
MaxFieldCount == 7

HeightFieldNames == <<"id", "f2", "f3", "f4", "f5", "f6", "f7", "f8", "f9">>

HeightFields(count) == [j \in 1 .. count |-> Field(Name(HeightFieldNames[j]), j = 1)]

HeightSchema(m, n, rels) ==
    Schema(<<"h.M", "h.N">>,
           [k \in {"h.M", "h.N"} |->
               IF k = "h.M" THEN Model(HeightFields(m), <<>>)
               ELSE Model(HeightFields(n), rels)])

HeightSchemas ==
    {HeightSchema(m, n, rels) :
        m \in 0 .. MaxFieldCount, n \in 0 .. MaxFieldCount,
        rels \in {<<>>, <<Fk("m", "h.M")>>}}

NextHeights ==
    \/ \E r \in HeightSchemas : FetchSchemaComplete(r)
    \/ RecalculateLayout

SpecHeights == Init /\ [][NextHeights]_vars

(***************************************************************************)
(* Zooming: the toolbar, the wheel, selection and the detail panel on a    *)
(* project of two related models and on one of TallModels unrelated models *)
(* of six fields each                                                      *)
(***************************************************************************)
TallModels == 8

Tall ==
    LET keys == <<"t.M1", "t.M2", "t.M3", "t.M4", "t.M5", "t.M6", "t.M7", "t.M8", "t.M9">>
    IN  Schema(SubSeq(keys, 1, TallModels),
               [k \in {keys[i] : i \in 1 .. TallModels} |-> Model(GraphFields(6), <<>>)])

NextZoom ==
    \/ \E r \in {TwoNode, Tall} : FetchSchemaComplete(r)
    \/ RecalculateLayout
    \/ ZoomIn
    \/ ZoomOut
    \/ OnCanvasWheel
    \/ FitViewClick
    \/ \E key \in KeySet(TwoNode) \cup KeySet(Tall) : SelectModel(key)
    \/ \E i \in DOMAIN pendingDetail : SelectModelComplete(i)
    \/ \E i \in DOMAIN pendingDetail : SelectModelFail(i)
    \/ CloseDetail

SpecZoom == Init /\ [][NextZoom]_vars

(***************************************************************************)
(* Drags off the grid: the two nodes of the two-node project dropped       *)
(* beside, above and below each other, half a node width apart and less    *)
(***************************************************************************)
SideGrid == {Pt(x, y) : x \in {50, 100, 160, 420}, y \in {50, 400}}

NextSide ==
    \/ FetchSchemaComplete(TwoNode)
    \/ RecalculateLayout
    \/ \E key \in domNodes : NodeMouseDown(key, Grab(key, Pt(0, 0)))
    \/ \E g \in SideGrid : OnMouseMove(Drop(g))
    \/ OnMouseUp

SpecSide == Init /\ [][NextSide]_vars

(***************************************************************************)
(* Relationship records: g.A holds up to MaxOwnRels relationships, forward *)
(* or reverse, named fk or alt, to g.B, to itself or to g.Z, which is no   *)
(* model of the schema; g.B holds none, a foreign key to g.A or to itself  *)
(***************************************************************************)
MaxOwnRels == 2

RelChoices ==
    {Rel(Name(n), "forward", t) : n \in {"fk", "alt"}, t \in {"g.B", "g.A", "g.Z"}}
      \cup {Rel(Name(n), "reverse", "g.B") : n \in {"fk", "alt"}}

RelSchema(relsA, relsB) ==
    Schema(<<"g.A", "g.B">>,
           [k \in {"g.A", "g.B"} |->
               IF k = "g.A" THEN Model(<<PK>>, relsA) ELSE Model(<<PK>>, relsB)])

RelSchemas ==
    {RelSchema(relsA, relsB) :
        relsA \in UNION {[1 .. m -> RelChoices] : m \in 0 .. MaxOwnRels},
        relsB \in {<<>>, <<Fk("fk", "g.A")>>, <<Fk("fk", "g.B")>>}}

NextRel ==
    \/ \E r \in RelSchemas : FetchSchemaComplete(r)
    \/ RecalculateLayout

SpecRel == Init /\ [][NextRel]_vars

(***************************************************************************)
(* Fans: up to MaxFanSources models with 0, 1 or 2 foreign keys each to    *)
(* one model f.T, which is dragged up and down                             *)
(***************************************************************************)
MaxFanSources == 3

FanTarget == "f.T"

FanSources == <<"f.S1", "f.S2", "f.S3", "f.S4", "f.S5">>

FanRelNames == <<"a", "b">>

\* counts[i]: the number of foreign keys of the i-th source
FanSchema(counts) ==
    Schema(<<FanTarget>> \o SubSeq(FanSources, 1, Len(counts)),
           [k \in {FanTarget} \cup {FanSources[i] : i \in DOMAIN counts} |->
               IF k = FanTarget THEN Model(<<PK>>, <<>>)
               ELSE LET i == CHOOSE i \in DOMAIN counts : FanSources[i] = k
                    IN  Model(<<PK>>, [j \in 1 .. counts[i] |->
                                          Fk(FanRelNames[j], FanTarget)])])

\* five models with one foreign key each to f.T
FiveFan == FanSchema(<<1, 1, 1, 1, 1>>)

FanSchemas ==
    {FiveFan} \cup {FanSchema(counts) :
                       counts \in UNION {[1 .. n -> 0 .. 2] : n \in 1 .. MaxFanSources}}

FanGrid == {Pt(50, 400), Pt(790, 50)}

NextFan ==
    \/ \E r \in FanSchemas : FetchSchemaComplete(r)
    \/ RecalculateLayout
    \/ NodeMouseDown(FanTarget, Grab(FanTarget, Pt(0, 0)))
    \/ \E g \in FanGrid : OnMouseMove(Drop(g))
    \/ OnMouseUp

SpecFan == Init /\ [][NextFan]_vars

(***************************************************************************)
(* Properties.  What the layout computed last is read from the state; the  *)
(* columns and rows, which calculateHierarchicalLayout keeps in local      *)
(* variables, are those of the run on the current schema.                  *)
(***************************************************************************)
Laid == layoutData # Null

CurrentBounds == NodeBounds(nodePositions, nodeHeights)

CurrentRun == LayoutRun(schema, nodeHeights)

\* what calculateEdgeRoutes computed for the i-th edge before choosing its route
CurrentContext(i) ==
    EdgeContext(nodePositions, layoutData.edges, nodeHeights, layoutData.nodeMap,
                layoutData.edges[i],
                TargetCount(nodePositions, layoutData.edges, layoutData.nodeMap, i))

\* some node is away from where the layout put it
Dragged == Laid /\ schema # Null /\ nodePositions # CurrentRun.positions

\* C1: after a layout pass and after every drag step, edgeRoutes holds exactly
\* one route per edge of layoutData.edges, in edge-list order, and every route
\* has at least 2 points
C1_OneRoutePerEdge ==
    Laid => /\ Len(edgeRoutes) = Len(layoutData.edges)
            /\ \A i \in DOMAIN edgeRoutes :
                  /\ edgeRoutes[i].edge = layoutData.edges[i]
                  /\ Len(edgeRoutes[i].points) >= 2

\* an edge routed after a drag that stacked its two nodes in one column
C1_Witness ==
    /\ Dragged
    /\ \E i \in DOMAIN edgeRoutes :
          nodePositions[edgeRoutes[i].edge.source].x
            = nodePositions[edgeRoutes[i].edge.target].x

AxisAligned(points) ==
    \A j \in 1 .. Len(points) - 1 :
        points[j].x = points[j + 1].x \/ points[j].y = points[j + 1].y

\* C2: in every route, right after layout and after any drags, every two
\* consecutive points have equal x or equal y, also when the two anchor Y values
\* differ by 1 or less
C2_AxisAligned == \A i \in DOMAIN edgeRoutes : AxisAligned(edgeRoutes[i].points)

AnchoredOn(p, bounds) ==
    /\ p.x \in {bounds.left, bounds.right}
    /\ p.y >= bounds.top /\ p.y <= bounds.bottom

\* C3: the first point of every route is on the left or right side of the source
\* box, between its top and bottom, and the last point is so on the target box,
\* whatever the field counts and the number of edges fanned onto the target
C3_AnchorsOnBoxes ==
    \A i \in DOMAIN edgeRoutes :
        /\ AnchoredOn(edgeRoutes[i].points[1], CurrentBounds[edgeRoutes[i].edge.source])
        /\ AnchoredOn(edgeRoutes[i].points[Len(edgeRoutes[i].points)],
                      CurrentBounds[edgeRoutes[i].edge.target])

Descends(run, edge) == run.columns[edge.source] >= run.columns[edge.target] + 1

\* C4: for every edge col(source) >= col(target) + 1, unless the source belongs
\* to the cyclic-residual set
C4_ColumnsDescend ==
    schema # Null =>
        \A i \in DOMAIN CurrentRun.edges :
            CurrentRun.edges[i].source \notin CurrentRun.residual
                => Descends(CurrentRun, CurrentRun.edges[i])

\* C4, amended: for every edge col(source) >= col(target) + 1, unless the source
\* belongs to the cyclic-residual set or is the most-referenced node seeded into
\* column 0 because no node was without outgoing edges
C4_ColumnsDescendOffSeed ==
    schema # Null =>
        \A i \in DOMAIN CurrentRun.edges :
            CurrentRun.edges[i].source \notin CurrentRun.residual \cup CurrentRun.seed
                => Descends(CurrentRun, CurrentRun.edges[i])

\* a graph without base nodes: the seed has an outgoing edge, and another node,
\* placed by propagation, has one too
C4_Witness ==
    /\ schema # Null
    /\ \E i, j \in DOMAIN CurrentRun.edges :
          /\ CurrentRun.edges[i].source \in CurrentRun.seed
          /\ CurrentRun.edges[j].source \notin CurrentRun.residual \cup CurrentRun.seed

\* C5: after row assignment and compaction no two distinct nodes share a
\* (column, row) cell, so that no two nodes are laid at the same position
C5_DistinctCells ==
    schema # Null =>
        \A a, b \in KeySet(schema) :
            a # b => /\ <<CurrentRun.columns[a], CurrentRun.rows[a]>>
                        # <<CurrentRun.columns[b], CurrentRun.rows[b]>>
                     /\ nodePositions[a] # nodePositions[b]

\* three nodes laid in one column
C5_Witness ==
    /\ schema # Null
    /\ \E a, b, c \in KeySet(schema) :
          /\ a # b /\ b # c /\ a # c
          /\ CurrentRun.columns[a] = CurrentRun.columns[b]
          /\ CurrentRun.columns[b] = CurrentRun.columns[c]

\* A, O, B in the first three columns with the same top Y, A -> B the only edge
ObstacleScenario ==
    /\ Laid
    /\ Len(layoutData.edges) = 1
    /\ Len(edgeRoutes) = 1
    /\ \E o \in DOMAIN nodePositions :
          /\ DOMAIN nodePositions
               = {layoutData.edges[1].source, o, layoutData.edges[1].target}
          /\ o \notin {layoutData.edges[1].source, layoutData.edges[1].target}
          /\ nodePositions[layoutData.edges[1].source].x = firstColX
          /\ nodePositions[o].x = firstColX + (nodeWidth + horizontalGap)
          /\ nodePositions[layoutData.edges[1].target].x
               = firstColX + 2 * (nodeWidth + horizontalGap)
          /\ nodePositions[o].y = nodePositions[layoutData.edges[1].source].y
          /\ nodePositions[o].y = nodePositions[layoutData.edges[1].target].y

\* C6: in the obstacle scenario the route selected for A -> B has nodeTouches = 0
C6_ObstacleCleared ==
    ObstacleScenario =>
        countNodeTouches(edgeRoutes[1].points, CurrentBounds,
                         {layoutData.edges[1].source, layoutData.edges[1].target}) = 0

Jogs == {"shortJog", "wideJog"}

\* none of the direct, outer-left and outer-right candidates of the i-th edge
\* passed its obstacle checks
NoneChecked(i) ==
    \A j \in DOMAIN routeOptions(CurrentContext(i)) :
        routeOptions(CurrentContext(i))[j].kind \in Jogs

CurrentScore(i, points) ==
    scorePath(points, SubSeq(edgeRoutes, 1, i - 1), CurrentBounds,
              {layoutData.edges[i].source, layoutData.edges[i].target})

\* C7: when no candidate of an edge passes the obstacle checks, its route is the
\* unchecked outer-right wrap
C7_OuterRightWrap ==
    Laid => \A i \in DOMAIN edgeRoutes :
                NoneChecked(i) => edgeRoutes[i].points = FallbackRoute(CurrentContext(i))

\* C7, amended: when no candidate of an edge passes the obstacle checks, its
\* route is one of the eight unchecked jog candidates (short and wide, on the
\* four side combinations): the one of the lowest score, the earliest generated
\* among equals
C7_LowestJog ==
    Laid => \A i \in DOMAIN edgeRoutes :
                NoneChecked(i) =>
                    \E j \in DOMAIN routeOptions(CurrentContext(i)) :
                        LET options == routeOptions(CurrentContext(i))
                        IN  /\ Len(options) = 8
                            /\ options[j].kind \in Jogs
                            /\ edgeRoutes[i].points = options[j].points
                            /\ \A k \in DOMAIN options :
                                  CurrentScore(i, options[j].points)
                                    <= CurrentScore(i, options[k].points)
                            /\ \A k \in 1 .. j - 1 :
                                  CurrentScore(i, options[j].points)
                                    < CurrentScore(i, options[k].points)

\* the obstacle scenario leaves the edge A -> B no checked candidate
C7_Witness == ObstacleScenario /\ NoneChecked(1)

\* a mousemove that drags a node, the pointer where it drops the node at g
DragStep(g) ==
    /\ isDragging /\ dragTarget # NoKey /\ ~isPanning
    /\ OnMouseMove(Drop(g))

\* C8: a node-drag mousemove puts the dragged node under the pointer and changes
\* no other position; the heights, the node map and the edge list are unchanged
\* (the layout is not re-run) and the routes are those of the new positions
C8_DragFrame ==
    [][\A g \in DragGrid :
          DragStep(g) =>
              /\ DOMAIN nodePositions' = DOMAIN nodePositions \cup {dragTarget}
              /\ nodePositions'[dragTarget] = g
              /\ \A k \in DOMAIN nodePositions \ {dragTarget} :
                    nodePositions'[k] = nodePositions[k]
              /\ nodeHeights' = nodeHeights
              /\ layoutData' = layoutData
              /\ edgeRoutes' = calculateEdgeRoutes(nodePositions', layoutData.edges,
                                                   nodeHeights, layoutData.nodeMap)]_vars

\* a node is being dragged while another one lies where an earlier drag left it
C8_Witness ==
    /\ Dragged /\ isDragging /\ dragTarget \in DOMAIN nodePositions
    /\ nodePositions[dragTarget] # CurrentRun.positions[dragTarget]
    /\ \E k \in DOMAIN nodePositions \ {dragTarget} :
          nodePositions[k] # CurrentRun.positions[k]

\* C9: after every handler the key set of nodePositions is the node set of the
\* current schema and every route joins two nodes of the current schema
C9_CurrentSnapshot ==
    schema # Null =>
        /\ DOMAIN nodePositions = KeySet(schema)
        /\ \A i \in DOMAIN edgeRoutes :
              /\ edgeRoutes[i].edge.source \in KeySet(schema)
              /\ edgeRoutes[i].edge.target \in KeySet(schema)

\* C10: no handler runs the layout, routing or rendering code while schema is
\* null (threw names the function that read the apps of a null schema)
C10_NeverOnNullSchema == threw = ""

\* the heights, layout data, positions and routes calculateLayout derives from r
DerivedFrom(r) ==
    LET Same(heights, layout) ==
            /\ nodeHeights = heights
            /\ layoutData = [nodeMap |-> layout.nodeMap, edges |-> layout.edges]
            /\ nodePositions = layout.positions
            /\ edgeRoutes = calculateEdgeRoutes(layout.positions, layout.edges,
                                                heights, layout.nodeMap)
        WithHeights(heights) == Same(heights, calculateHierarchicalLayout(r, heights))
    IN  /\ schema = r
        /\ WithHeights(calculateNodeHeights(r))

\* C11: with several schema fetches in flight, every response that is processed
\* replaces the schema, heights, positions and routes by those derived from it,
\* and nothing else changes them: once all fetches have completed they are
\* those of the response processed last, and no part of an earlier one survives
C11_LastResponseWins ==
    [][/\ \A r \in RefetchResponses :
             FetchSchemaComplete(r) =>
                 /\ schema' = r
                 /\ nodeHeights' = calculateNodeHeights(r)
                 /\ nodePositions' = calculateHierarchicalLayout(r, nodeHeights').positions
                 /\ layoutData'.nodeMap = calculateHierarchicalLayout(r, nodeHeights').nodeMap
                 /\ layoutData'.edges = calculateHierarchicalLayout(r, nodeHeights').edges
                 /\ edgeRoutes' = calculateEdgeRoutes(nodePositions', layoutData'.edges,
                                                      nodeHeights', layoutData'.nodeMap)
       /\ (\A r \in RefetchResponses : ~FetchSchemaComplete(r))
             => UNCHANGED <<schema, nodeHeights, layoutData, nodePositions, edgeRoutes>>
      ]_vars

\* all fetches have completed, and a model selected under an earlier response
\* is no node of the response processed last
C11_Witness ==
    /\ pendingSchema = 0
    /\ schema # Null
    /\ DerivedFrom(schema)
    /\ selectedModel # NoKey
    /\ selectedModel \notin KeySet(schema)

\* the edges that end at the target of the i-th edge: all of them, and those
\* before the i-th
Incoming(i) ==
    {j \in DOMAIN layoutData.edges :
        /\ layoutData.edges[j].target = layoutData.edges[i].target
        /\ layoutData.edges[j].source # layoutData.edges[j].target}

\* twice the offset of the end anchor of the i-th route from the target's
\* primary-key anchor
TwiceEndOffset(i) ==
    2 * (edgeRoutes[i].points[Len(edgeRoutes[i].points)].y
           - CurrentBounds[layoutData.edges[i].target].top
           - getPkYOffset(layoutData.nodeMap[layoutData.edges[i].target].model))

RECURSIVE SumTwiceEndOffsets(_)
SumTwiceEndOffsets(S) ==
    IF S = {} THEN 0
    ELSE LET j == CHOOSE j \in S : TRUE
         IN  TwiceEndOffset(j) + SumTwiceEndOffsets(S \ {j})

\* C12: for a target with k incoming edges the i-th of them in edge-list order
\* (from 0) has the end-anchor offset (i - (k - 1) / 2) * 12, so the offsets are
\* 12 apart and sum to 0; for k = 5 they are -24, -12, 0, 12, 24
C12_FanOffsets ==
    (Laid /\ Len(edgeRoutes) = Len(layoutData.edges)) =>
        \A i \in DOMAIN edgeRoutes :
            LET k   == Cardinality(Incoming(i))
                idx == Cardinality({j \in Incoming(i) : j < i})
            IN  /\ TwiceEndOffset(i) = (2 * idx - (k - 1)) * 12
                /\ \A j \in Incoming(i) :
                      j # i => Abs(TwiceEndOffset(i) - TwiceEndOffset(j))
                                 = 2 * 12 * Abs(i - j)
                /\ SumTwiceEndOffsets(Incoming(i)) = 0
                /\ k = 5 => TwiceEndOffset(i) = 2 * <<-24, -12, 0, 12, 24>>[idx + 1]

\* five models point to f.T, which has been dragged away from its cell
C12_Witness ==
    /\ schema = FiveFan
    /\ Len(edgeRoutes) = 5
    /\ nodePositions[FanTarget] \in FanGrid
    /\ \A i \in DOMAIN edgeRoutes : Cardinality(Incoming(i)) = 5

\* C13: calculateLayout is a function of the schema alone: the first run, when
\* the response arrives, and every later run on the same schema, immediately or
\* after any node drags, store the same heights, positions, edges and routes
C13_LayoutOfSchemaAlone ==
    [][((\E r \in DragResponses : schema' = r /\ FetchSchemaComplete(r))
          \/ (schema # Null /\ RecalculateLayout)) =>
          /\ nodeHeights' = calculateNodeHeights(schema')
          /\ nodePositions' = calculateHierarchicalLayout(schema', nodeHeights').positions
          /\ layoutData'.edges = calculateHierarchicalLayout(schema', nodeHeights').edges
          /\ layoutData'.nodeMap = calculateHierarchicalLayout(schema', nodeHeights').nodeMap
          /\ edgeRoutes' = calculateEdgeRoutes(nodePositions', layoutData'.edges,
                                               nodeHeights', layoutData'.nodeMap)
      ]_vars

\* drags have moved every one of at least two nodes away from its layout
\* position, and no drag is under way: the state a re-layout click finds
C13_Witness ==
    /\ Dragged /\ ~isDragging
    /\ Cardinality(DOMAIN nodePositions) >= 2
    /\ \A k \in DOMAIN nodePositions : nodePositions[k] # CurrentRun.positions[k]

\* the (source, target, rel.name) triples of the forward relationships of sch
\* between two different nodes of it
EdgeTriples(sch) ==
    UNION {{<<k, sch.models[k].relationships[j].target,
              sch.models[k].relationships[j].name>> :
               j \in {q \in DOMAIN sch.models[k].relationships :
                         /\ sch.models[k].relationships[q].direction = "forward"
                         /\ sch.models[k].relationships[q].target \in KeySet(sch)
                         /\ sch.models[k].relationships[q].target # k}} :
           k \in KeySet(sch)}

\* C14: the edge list holds exactly one edge per distinct (source, target,
\* rel.name) triple of a forward relationship to another node of the schema,
\* each with a relationship record of its source; a forward relationship of a
\* node to itself makes no edge and sets hasSelfConnection; a relationship
\* with an unknown target or of direction reverse makes no edge
C14_EdgeList ==
    (schema # Null /\ Laid) =>
        /\ {<<layoutData.edges[i].source, layoutData.edges[i].target,
              layoutData.edges[i].rel.name>> : i \in DOMAIN layoutData.edges}
             = EdgeTriples(schema)
        /\ Len(layoutData.edges) = Cardinality(EdgeTriples(schema))
        /\ \A i \in DOMAIN layoutData.edges :
              /\ layoutData.edges[i].source # layoutData.edges[i].target
              /\ layoutData.edges[i].rel
                    \in Range(schema.models[layoutData.edges[i].source].relationships)
              /\ layoutData.edges[i].rel.direction = "forward"
              /\ layoutData.edges[i].rel.target = layoutData.edges[i].target
        /\ \A k \in KeySet(schema) :
              (\E j \in DOMAIN schema.models[k].relationships :
                  /\ schema.models[k].relationships[j].direction = "forward"
                  /\ schema.models[k].relationships[j].target = k)
                => layoutData.nodeMap[k].hasSelfConnection

\* g.A holds the same foreign key to g.B twice, g.B a foreign key to itself
C14_Witness ==
    /\ schema # Null /\ Laid
    /\ KeySet(schema) = {"g.A", "g.B"}
    /\ schema.models["g.A"].relationships = <<Fk("fk", "g.B"), Fk("fk", "g.B")>>
    /\ schema.models["g.B"].relationships = <<Fk("fk", "g.B")>>
    /\ Len(layoutData.edges) = 1

\* the schema is the all-cyclic graph of two nodes: each has a foreign key to
\* the other and none to itself
TwoCycle ==
    /\ schema # Null /\ Laid
    /\ Len(schema.keys) = 2
    /\ {<<layoutData.edges[i].source, layoutData.edges[i].target>> :
           i \in DOMAIN layoutData.edges}
         = {<<schema.keys[1], schema.keys[2]>>, <<schema.keys[2], schema.keys[1]>>}
    /\ \A k \in KeySet(schema) : ~layoutData.nodeMap[k].hasSelfConnection

\* C15: in the all-cyclic 2-node graph both nodes get column 0 and distinct rows
C15_BothColumnZero ==
    TwoCycle =>
        /\ CurrentRun.columns[schema.keys[1]] = 0
        /\ CurrentRun.columns[schema.keys[2]] = 0
        /\ CurrentRun.rows[schema.keys[1]] # CurrentRun.rows[schema.keys[2]]

\* C15, amended: in the all-cyclic 2-node graph the node that comes first in
\* the schema is seeded into column 0, the other one gets column 1 by
\* propagation, and both are in row 0, next to each other
C15_SeedAndNeighbour ==
    TwoCycle =>
        /\ CurrentRun.seed = {schema.keys[1]}
        /\ CurrentRun.residual = {}
        /\ CurrentRun.columns[schema.keys[1]] = 0
        /\ CurrentRun.columns[schema.keys[2]] = 1
        /\ CurrentRun.rows[schema.keys[1]] = 0
        /\ CurrentRun.rows[schema.keys[2]] = 0
        /\ nodePositions[schema.keys[1]].x + 370 = nodePositions[schema.keys[2]].x
        /\ nodePositions[schema.keys[1]].y = nodePositions[schema.keys[2]].y

\* the all-cyclic 2-node graph has been laid out and routed
C15_Witness == TwoCycle /\ Len(edgeRoutes) = 2 /\ CurrentRun.passes = 2

\* the schema is the diamond
Diamond == schema \in DiamondSchemas /\ Laid

\* of d.B and d.C, the one placed first and the one placed second: both get
\* column 1 in schema order, and the sort of the column keeps that order
DiamondPlaced ==
    SelectSeq(schema.keys, LAMBDA k : k \in {"d.B", "d.C"})

\* C16: in the diamond the columns are A = 0, B = C = 1, D = 2; B and C are in
\* rows 0 and 1, A in row 0, and D in the row of whichever of B and C was
\* placed first
C16_DiamondFirstPlaced ==
    Diamond =>
        /\ CurrentRun.columns = [k \in {"d.A", "d.B", "d.C", "d.D"} |->
                                    IF k = "d.A" THEN 0 ELSE IF k = "d.D" THEN 2 ELSE 1]
        /\ {CurrentRun.rows["d.B"], CurrentRun.rows["d.C"]} = {0, 1}
        /\ CurrentRun.rows["d.A"] = 0
        /\ CurrentRun.rows["d.D"] = CurrentRun.rows[DiamondPlaced[1]]

\* C16, amended: in the diamond the columns are A = 0, B = C = 1, D = 2; the
\* one of B and C placed first is in row 0 beside A, the other one in row 1;
\* and D is in row 1, the row of the one placed second, because row 0 holds A,
\* which is no connection of D
C16_DiamondSecondPlaced ==
    Diamond =>
        /\ CurrentRun.columns = [k \in {"d.A", "d.B", "d.C", "d.D"} |->
                                    IF k = "d.A" THEN 0 ELSE IF k = "d.D" THEN 2 ELSE 1]
        /\ CurrentRun.rows["d.A"] = 0
        /\ CurrentRun.rows[DiamondPlaced[1]] = 0
        /\ CurrentRun.rows[DiamondPlaced[2]] = 1
        /\ CurrentRun.rows["d.D"] = 1
        /\ CurrentRun.how[DiamondPlaced[1]] = "connection"
        /\ CurrentRun.how[DiamondPlaced[2]] = "scan"
        /\ CurrentRun.how["d.D"] = "connection"

\* the diamond laid out from a response that lists d.D first and whose d.D
\* points to d.C, the later one of d.B and d.C, first
C16_Witness ==
    /\ Diamond
    /\ schema.keys[1] = "d.D"
    /\ DiamondPlaced = <<"d.B", "d.C">>
    /\ schema.models["d.D"].relationships[1].target = "d.C"
    /\ Len(edgeRoutes) = 4

\* the two-node schema as the layout left it
TwoNodeLaid == schema = TwoNode /\ Laid /\ ~Dragged

\* the only route is a direct candidate whose runway is at midX, with
\* horizontal segments of length run on both sides, no crossing and no touch
DirectThrough(midX, run) ==
    /\ Len(edgeRoutes) = 1
    /\ \E j \in DOMAIN routeOptions(CurrentContext(1)) :
          /\ routeOptions(CurrentContext(1))[j].kind = "direct"
          /\ routeOptions(CurrentContext(1))[j].points = edgeRoutes[1].points
    /\ Len(edgeRoutes[1].points) >= 3
    /\ edgeRoutes[1].points[2].x = midX
    /\ edgeRoutes[1].points[Len(edgeRoutes[1].points) - 1].x = midX
    /\ Abs(edgeRoutes[1].points[1].x - midX) = run
    /\ Abs(edgeRoutes[1].points[Len(edgeRoutes[1].points)].x - midX) = run
    /\ countCrossings(edgeRoutes[1].points, <<>>) = 0
    /\ countNodeTouches(edgeRoutes[1].points, CurrentBounds,
                        {"auth.User", "blog.Post"}) = 0

TwoNodePlaced ==
    /\ CurrentRun.columns["auth.User"] = 0
    /\ CurrentRun.columns["blog.Post"] = 1
    /\ nodePositions["auth.User"] = Pt(50, 50)
    /\ nodePositions["blog.Post"] = Pt(420, 50)

\* C17: in the two-node scenario auth.User gets column 0 and (50, 50),
\* blog.Post column 1 and (420, 50), and the single route is the direct
\* candidate with midX = 335 and horizontal segments of length 65 on both
\* sides, with 0 crossings and 0 node touches
C17_TwoNodeMid335 == TwoNodeLaid => TwoNodePlaced /\ DirectThrough(335, 65)

\* C17, amended: in the two-node scenario auth.User gets column 0 and (50, 50),
\* blog.Post column 1 and (420, 50), and the single route is the direct
\* candidate with midX = 345 and horizontal segments of length 75 on both
\* sides, the straight line from the left side of blog.Post to the right side
\* of auth.User at Y = 122, with 0 crossings and 0 node touches
C17_TwoNodeMid345 ==
    TwoNodeLaid =>
        /\ TwoNodePlaced
        /\ DirectThrough(345, 75)
        /\ edgeRoutes[1].points = <<Pt(420, 122), Pt(345, 122), Pt(270, 122)>>

\* the two-node schema laid out, its edge routed, no node dragged
C17_Witness ==
    /\ TwoNodeLaid
    /\ Len(edgeRoutes) = 1
    /\ edgeRoutes[1].edge.source = "blog.Post"
    /\ edgeRoutes[1].edge.target = "auth.User"

\* the nodes that the layout put in the given row
InRow(run, row) == {q \in DOMAIN run.rows : run.rows[q] = row}

\* the grid of one layout run: every model has one column, one row and one
\* position, x = 50 + 370 * column, row 0 at y = 50, every next row below the
\* previous one by its tallest node plus 100, no column and no row left out
OnGrid(run) ==
    /\ DOMAIN run.columns = KeySet(schema)
    /\ DOMAIN run.rows = KeySet(schema)
    /\ DOMAIN nodePositions = KeySet(schema)
    /\ \A n \in KeySet(schema) :
          /\ run.columns[n] \in Nat
          /\ run.rows[n] \in Nat
          /\ nodePositions[n].x = 50 + 370 * run.columns[n]
          /\ run.rows[n] = 0 => nodePositions[n].y = 50
          /\ run.columns[n] > 0 =>
                \E m \in KeySet(schema) : run.columns[m] = run.columns[n] - 1
          /\ run.rows[n] > 0 =>
                \E m \in KeySet(schema) : run.rows[m] = run.rows[n] - 1
          /\ \A m \in KeySet(schema) :
                run.rows[m] = run.rows[n] + 1 =>
                    nodePositions[m].y =
                        nodePositions[n].y
                          + SetMax({nodeHeights[q] : q \in InRow(run, run.rows[n])})
                          + 100
    /\ (Len(schema.keys) = 1 /\ CurrentRun.edges = <<>>) =>
          nodePositions[schema.keys[1]] = Pt(50, 50)

\* C18: after a layout every node has exactly one column, one row and one
\* position, position(n) = (50 + 370 * col(n), rowY(row(n))) with rowY(0) = 50
\* and rowY(r + 1) = rowY(r) + the greatest height in row r + 100, the used
\* column indices have no gaps, and a single node without relationships is
\* at (50, 50)
C18_GridPositions == Laid => OnGrid(CurrentRun)

\* a layout with a node in a column right of column 0 and a node in a row
\* below a row 0 that holds nodes of different heights
C18_Witness ==
    /\ Laid
    /\ \E n \in KeySet(schema) : CurrentRun.columns[n] > 0
    /\ \E n \in KeySet(schema) : CurrentRun.rows[n] > 0
    /\ Cardinality({nodeHeights[q] : q \in InRow(CurrentRun, 0)}) > 1

\* C19: no route contains two consecutive identical points (every two
\* consecutive points of a route differ in exactly one coordinate), also when
\* the source and target anchors have the same Y or a jog runway coincides
\* with the target side X
C19_NoRepeatedPoint ==
    \A i \in DOMAIN edgeRoutes :
        \A j \in 1 .. Len(edgeRoutes[i].points) - 1 :
            edgeRoutes[i].points[j] # edgeRoutes[i].points[j + 1]

FieldCount(key) == Len(schema.models[key].fields)

\* C20: calculateNodeHeights gives a model with n fields the height
\* 50 + 16 + min(n, 5) * 28 + (24 if n > 5 else 0), and the height is monotone
\* in n: a model with more fields is never lower than one with fewer
C20_NodeHeights ==
    Laid =>
        /\ DOMAIN nodeHeights = KeySet(schema)
        /\ \A k \in KeySet(schema) :
              nodeHeights[k] =
                  50 + 16 + (IF FieldCount(k) < 5 THEN FieldCount(k) ELSE 5) * 28
                    + (IF FieldCount(k) > 5 THEN 24 ELSE 0)
        /\ \A k, q \in KeySet(schema) :
              FieldCount(k) <= FieldCount(q) => nodeHeights[k] <= nodeHeights[q]

\* a schema with a model of more than five fields next to one with one field
\* fewer
C20_Witness ==
    /\ Laid
    /\ \E k, q \in KeySet(schema) :
          /\ FieldCount(k) > 5
          /\ FieldCount(q) + 1 = FieldCount(k)
          /\ nodeHeights[q] < nodeHeights[k]

\* the row indices in use are 0 .. R - 1 for some R
Dense(rows) ==
    {rows[k] : k \in DOMAIN rows} = 0 .. Cardinality({rows[k] : k \in DOMAIN rows}) - 1

\* the same nodes, rows in the same relative order, the same nodes sharing a row
SameOrder(raw, rows) ==
    /\ DOMAIN rows = DOMAIN raw
    /\ \A n, m \in DOMAIN raw :
          /\ raw[n] < raw[m] <=> rows[n] < rows[m]
          /\ raw[n] = raw[m] <=> rows[n] = rows[m]

\* C21: after row compaction the row indices in use are exactly 0 .. R - 1 for
\* some R, and compaction preserves the relative order of the rows and which
\* nodes share a row; so for the rows the placement produced, and so for
\* every assignment of rows with gaps to the models of the schema
C21_CompactRows ==
    Laid =>
        /\ CurrentRun.rows = CompactRows(CurrentRun.rawRows)
        /\ Dense(CurrentRun.rows)
        /\ SameOrder(CurrentRun.rawRows, CurrentRun.rows)
        /\ \A raw \in [KeySet(schema) -> 0 .. MaxNodes + 2] :
              Dense(CompactRows(raw)) /\ SameOrder(raw, CompactRows(raw))

\* a layout that uses two rows or more, one of them shared by two nodes
C21_Witness ==
    /\ Laid
    /\ \E n, m \in KeySet(schema) :
          n # m /\ CurrentRun.rows[n] = CurrentRun.rows[m]
    /\ \E n \in KeySet(schema) : CurrentRun.rows[n] > 0

\* C22: the zoom scale of the view transform stays within [0.3, 3.0] in every
\* state reachable by zoom-in, zoom-out, wheel zoom, fit-to-view, select-model,
\* close-detail and re-layout (the scale is kept in thousandths)
C22_ScaleInRange == scale >= 300 /\ scale <= 3000

\* the score of a candidate of the i-th edge: crossings against the routes of
\* the edges before it, touches against every node but its two ends
ScoreAgainstEarlier(points, i) ==
    calculatePathLength(points) + 50 * countTurns(points)
      + 200 * countCrossings(points, SubSeq(edgeRoutes, 1, i - 1))
      + 500 * countNodeTouches(points, CurrentBounds,
                               {layoutData.edges[i].source, layoutData.edges[i].target})

\* the j-th candidate has the lowest score and is the first one that has it
FirstLowest(score, j) ==
    /\ \A k \in DOMAIN score : score[j] <= score[k]
    /\ \A k \in 1 .. j - 1 : score[k] > score[j]

SelectedIsFirstLowest(i, options) ==
    \E j \in DOMAIN options :
        /\ options[j].points = edgeRoutes[i].points
        /\ FirstLowest([k \in DOMAIN options |-> ScoreAgainstEarlier(options[k].points, i)], j)

\* C23: for every edge the selected route is a generated candidate whose score
\* (length + 50 * turns + 200 * crossings + 500 * nodeTouches) is minimal among
\* the candidates of that edge, the earliest generated one winning ties;
\* crossings are counted only against the routes of the edges earlier in the
\* edge list, as they stand in the final result
C23_FirstLowestScore ==
    Laid =>
        /\ Len(edgeRoutes) = Len(layoutData.edges)
        /\ \A i \in DOMAIN edgeRoutes :
              SelectedIsFirstLowest(i, routeOptions(CurrentContext(i)))

\* an edge one of whose candidates crosses the route of an earlier edge, and
\* the selected route shares its score with a later candidate of other points
C23_Witness ==
    /\ Laid
    /\ \E i \in DOMAIN edgeRoutes :
          /\ i > 1
          /\ \E k \in DOMAIN routeOptions(CurrentContext(i)) :
                countCrossings(routeOptions(CurrentContext(i))[k].points,
                               SubSeq(edgeRoutes, 1, i - 1)) > 0
          /\ \E k \in DOMAIN routeOptions(CurrentContext(i)) :
                /\ routeOptions(CurrentContext(i))[k].points # edgeRoutes[i].points
                /\ ScoreAgainstEarlier(routeOptions(CurrentContext(i))[k].points, i)
                     = ScoreAgainstEarlier(edgeRoutes[i].points, i)

\* the route starts on a side of the source box and moves away from the box
LeavesOutward(points, sBounds) ==
    /\ points[1].x \in {sBounds.left, sBounds.right}
    /\ points[1].x = sBounds.right => points[2].x > points[1].x
    /\ points[1].x = sBounds.left => points[2].x < points[1].x

\* the route ends on a side of the target box and its last segment comes from
\* outside the box
EntersFromOutside(points, tBounds) ==
    /\ points[Len(points)].x \in {tBounds.left, tBounds.right}
    /\ points[Len(points)].x = tBounds.left =>
          points[Len(points) - 1].x <= tBounds.left
    /\ points[Len(points)].x = tBounds.right =>
          points[Len(points) - 1].x >= tBounds.right

\* C24: every selected route leaves the source in the direction of the side
\* it starts on (rightward from the right side, leftward from the left side)
\* and its final segment reaches the target from outside the target box on
\* the side it ends on (runway X <= target.left for a left-side entry, runway
\* X >= target.right for a right-side entry), for any node positions
C24_SideDirections ==
    \A i \in DOMAIN edgeRoutes :
        /\ LeavesOutward(edgeRoutes[i].points, CurrentBounds[edgeRoutes[i].edge.source])
        /\ EntersFromOutside(edgeRoutes[i].points, CurrentBounds[edgeRoutes[i].edge.target])

\* strictly between the two ends, whichever is the greater
StrictlyBetween(v, a, b) == (a < v /\ v < b) \/ (b < v /\ v < a)

\* the horizontal segment h1-h2 and the vertical segment v1-v2 meet in a single
\* point interior to both
CrossHV(h1, h2, v1, v2) ==
    /\ h1.y = h2.y /\ v1.x = v2.x
    /\ StrictlyBetween(v1.x, h1.x, h2.x)
    /\ StrictlyBetween(h1.y, v1.y, v2.y)

ProperCross(p1, p2, p3, p4) == CrossHV(p1, p2, p3, p4) \/ CrossHV(p3, p4, p1, p2)

\* the pairs of a segment of a candidate of an edge and a segment of the route
\* of an earlier edge, both axis-aligned, that countCrossings compares
ComparedSegments ==
    UNION {UNION {{<<opt.points[a], opt.points[a + 1],
                     edgeRoutes[r].points[b], edgeRoutes[r].points[b + 1]>> :
                      a \in 1 .. Len(opt.points) - 1,
                      b \in 1 .. Len(edgeRoutes[r].points) - 1} :
                  opt \in Range(routeOptions(CurrentContext(i))), r \in 1 .. i - 1} :
           i \in DOMAIN edgeRoutes}

AxisAlignedPair(q) ==
    /\ q[1].x = q[2].x \/ q[1].y = q[2].y
    /\ q[3].x = q[4].x \/ q[3].y = q[4].y

\* C25: segmentsIntersect(p1, p2, p3, p4) is true exactly when the two
\* axis-aligned segments properly cross (they meet in a single point interior
\* to both): false when they share an endpoint, when an endpoint of one lies on
\* the other, and when they are collinear; and its result does not depend on
\* the order of the two segments or of their endpoints
C25_ProperCrossOnly ==
    Laid =>
        \A q \in ComparedSegments :
            AxisAlignedPair(q) =>
                /\ segmentsIntersect(q[1], q[2], q[3], q[4]) <=> ProperCross(q[1], q[2], q[3], q[4])
                /\ segmentsIntersect(q[1], q[2], q[3], q[4]) <=> segmentsIntersect(q[3], q[4], q[1], q[2])
                /\ segmentsIntersect(q[1], q[2], q[3], q[4]) <=> segmentsIntersect(q[2], q[1], q[3], q[4])
                /\ segmentsIntersect(q[1], q[2], q[3], q[4]) <=> segmentsIntersect(q[1], q[2], q[4], q[3])

\* the nodes in the order the placement loop reaches them: column by column,
\* each column sorted by connection count
RECURSIVE PlacedFrom(_, _, _)
PlacedFrom(nodeMap, columns, c) ==
    IF c > SetMax({-1} \cup {columns.col[k] : k \in DOMAIN columns.col}) THEN <<>>
    ELSE SortByConnections(NodesInCol(columns, c), nodeMap)
           \o PlacedFrom(nodeMap, columns, c + 1)

PlacedOrder ==
    PlacedFrom(layoutData.nodeMap,
               AssignColumns(layoutData.nodeMap, schema.keys).columns, 0)

\* the nodes placed before the p-th one
PlacedBefore(order, p) == {order[q] : q \in 1 .. p - 1}

\* whether the row admits node n when the nodes of before are placed: the cell
\* is free and, with at most one connection, the connection is in an adjacent
\* column or not in this row; with two or more, every node of the row is a
\* connection of n or one of the two has a self-connection
Admits(run, n, row, before) ==
    /\ \A m \in before : ~(run.columns[m] = run.columns[n] /\ run.rawRows[m] = row)
    /\ IF Len(run.nodeMap[n].connections) <= 1
       THEN \A c \in Range(run.nodeMap[n].connections) :
                \/ Abs(run.columns[c] - run.columns[n]) = 1
                \/ ~(c \in before /\ run.rawRows[c] = row)
       ELSE \A m \in {q \in before : run.rawRows[q] = row} :
                \/ m \in Range(run.nodeMap[n].connections)
                \/ run.nodeMap[m].hasSelfConnection
                \/ run.nodeMap[n].hasSelfConnection

\* the connections of n, by index, that are placed and whose row admits n
AdmittingConnections(run, n, before) ==
    {i \in DOMAIN run.nodeMap[n].connections :
        /\ run.nodeMap[n].connections[i] \in before
        /\ Admits(run, n, run.rawRows[run.nodeMap[n].connections[i]], before)}

AdmittingRows(run, n, before) ==
    {row \in 0 .. Len(schema.keys) : Admits(run, n, row, before)}

RowByRule(run, n, before) ==
    IF AdmittingConnections(run, n, before) # {}
    THEN run.rawRows[run.nodeMap[n].connections[SetMin(AdmittingConnections(run, n, before))]]
    ELSE SetMin(AdmittingRows(run, n, before))

\* C26: the row assigner places each node in the row of the first of its
\* already-placed connections (in connection insertion order) whose row admits
\* it, otherwise in the lowest-indexed row that admits it; a row admits the node
\* iff the cell is free and, for a node with at most one connection, that
\* connection is in an adjacent column or not in this row, and for a node with
\* two or more connections, every node already in the row is one of its
\* connections or one of the two has a self-connection
C26_RowRule ==
    Laid =>
        /\ Range(PlacedOrder) = KeySet(schema)
        /\ \A p \in DOMAIN PlacedOrder :
              /\ AdmittingRows(CurrentRun, PlacedOrder[p], PlacedBefore(PlacedOrder, p)) # {}
              /\ CurrentRun.rawRows[PlacedOrder[p]]
                   = RowByRule(CurrentRun, PlacedOrder[p], PlacedBefore(PlacedOrder, p))

\* a node with two connections or more that a lower row with a free cell does
\* not admit and that is placed in the row of one of its connections
C26_Witness ==
    /\ Laid
    /\ \E p \in DOMAIN PlacedOrder :
          /\ Len(CurrentRun.nodeMap[PlacedOrder[p]].connections) >= 2
          /\ AdmittingConnections(CurrentRun, PlacedOrder[p], PlacedBefore(PlacedOrder, p)) # {}
          /\ \E row \in 0 .. CurrentRun.rawRows[PlacedOrder[p]] :
                /\ ~Admits(CurrentRun, PlacedOrder[p], row, PlacedBefore(PlacedOrder, p))
                /\ \A m \in PlacedBefore(PlacedOrder, p) :
                      ~(CurrentRun.columns[m] = CurrentRun.columns[PlacedOrder[p]]
                        /\ CurrentRun.rawRows[m] = row)

\* the candidates of the i-th edge that went through the obstacle checks
CheckedOptions(i) ==
    {opt \in Range(routeOptions(CurrentContext(i))) :
        opt.kind \in {"direct", "outerLeft", "outerRight"}}

TouchesOf(points, i) ==
    countNodeTouches(points, CurrentBounds,
                     {layoutData.edges[i].source, layoutData.edges[i].target})

\* C27 on whole pixels: every candidate admitted through the obstacle checks
\* (the direct, the outer-left and the outer-right routes) has nodeTouches = 0
\* when it is scored, in every state in which all nodes are at whole pixels
C27_OnWholePixels ==
    Laid =>
        \A i \in DOMAIN layoutData.edges :
            \A opt \in CheckedOptions(i) : TouchesOf(opt.points, i) = 0

\* an edge with a third node in the way: some candidate went through the
\* obstacle checks while an unchecked candidate of the edge touches a node
C27_WholePixelCase ==
    /\ Laid
    /\ \E i \in DOMAIN layoutData.edges :
          /\ CheckedOptions(i) # {}
          /\ \E opt \in Range(routeOptions(CurrentContext(i))) :
                TouchesOf(opt.points, i) > 0

\* A drag leaves a node at (clientY - transform.y) / scale - dragOffset.y, which
\* is no whole number in general.  In half pixels: the source box spans x
\* 100 .. 540 and its anchor is at y 244, the target's left side is at x 2000,
\* the runway of the direct candidate at x 1270, and a third node, as high as
\* the node of the given key, spans x 1400 .. 1840 with its top at the given y
HalfPixelObstacle(top, key) ==
    [left |-> 1400, right |-> 1840, top |-> top, bottom |-> top + 2 * nodeHeights[key]]

HalfPixelAdmitted(obstacle, endY) ==
    /\ ~horizontalSegmentBlocked({obstacle}, 540, 1270, 244)
    /\ ~verticalSegmentBlocked({obstacle}, 244, endY, 1270)
    /\ ~horizontalSegmentBlocked({obstacle}, 1270, 2000, endY)

\* C27: every candidate admitted through the obstacle checks (the direct, the
\* outer-left and the outer-right routes) has nodeTouches = 0 when it is
\* scored: a route that horizontalSegmentBlocked and verticalSegmentBlocked
\* accept is never counted by countNodeTouches as touching a node that is not
\* one of its ends; here for the direct candidate of an edge whose anchors
\* are up to two pixels apart in y, with a third node of the schema between
\* runway and target whose top is at any half pixel near the anchors
C27_AdmittedTouchNothing ==
    Laid =>
        \A key \in DOMAIN nodeHeights : \A top \in 236 .. 250 : \A endY \in 240 .. 248 :
            HalfPixelAdmitted(HalfPixelObstacle(top, key), endY) =>
                ~TouchesBounds(buildPathPointsIn(2, 540, 244, 2000, endY, 1270),
                               HalfPixelObstacle(top, key))

\* the boxes share no point, their borders included
Disjoint(a, b) ==
    \/ a.right < b.left \/ b.right < a.left
    \/ a.bottom < b.top \/ b.bottom < a.top

\* the free space between the boxes along x and along y (negative: overlap)
GapX(a, b) == Max2(a.left, b.left) - Min2(a.right, b.right)

GapY(a, b) == Max2(a.top, b.top) - Min2(a.bottom, b.bottom)

\* C28: immediately after a layout pass (before any drag) the bounding boxes
\* of any two distinct nodes are disjoint: nodes in different columns are at
\* least 150 apart horizontally and nodes in different rows at least 100 apart
\* vertically, whatever the node heights
C28_BoxesApart ==
    (Laid /\ ~Dragged) =>
        \A n, m \in KeySet(schema) :
            n # m =>
                /\ Disjoint(CurrentBounds[n], CurrentBounds[m])
                /\ CurrentRun.columns[n] # CurrentRun.columns[m] =>
                      GapX(CurrentBounds[n], CurrentBounds[m]) >= 150
                /\ CurrentRun.rows[n] # CurrentRun.rows[m] =>
                      GapY(CurrentBounds[n], CurrentBounds[m]) >= 100

\* a layout with nodes of different heights in one row, a node in the next
\* row and a node in another column
C28_Witness ==
    /\ Laid /\ ~Dragged
    /\ \E n, m, q \in KeySet(schema) :
          /\ CurrentRun.rows[n] = CurrentRun.rows[m]
          /\ nodeHeights[n] < nodeHeights[m]
          /\ CurrentRun.rows[q] = CurrentRun.rows[n] + 1
          /\ CurrentRun.columns[q] = CurrentRun.columns[n]
          /\ GapY(CurrentBounds[n], CurrentBounds[q]) > 100

\* the nodes that got their column from the propagation loop
Propagated(run) == KeySet(schema) \ (run.seed \cup run.residual \cup
                       {k \in KeySet(schema) : run.nodeMap[k].outgoing = <<>>})

\* C29: calculateHierarchicalLayout terminates for every finite schema graph,
\* cycles and self-references included: every pass of the column propagation
\* that sets changed assigns at least one new node, so the loop stops after at
\* most N + 1 passes, and the row search always finds an admissible row among
\* the rows 0 .. N - 1, so the new-row fallback is never needed
C29_LayoutTerminates ==
    Laid =>
        /\ CurrentRun.passes <= Cardinality(Propagated(CurrentRun)) + 1
        /\ CurrentRun.passes <= Len(schema.keys) + 1
        /\ DOMAIN CurrentRun.columns = KeySet(schema)
        /\ DOMAIN CurrentRun.rawRows = KeySet(schema)
        /\ \A n \in KeySet(schema) :
              /\ CurrentRun.how[n] \in {"connection", "scan"}
              /\ CurrentRun.rawRows[n] \in 0 .. Len(schema.keys) - 1

\* the layout of a graph in which every node has an outgoing edge (a cycle,
\* one node seeded into column 0) and whose propagation took one pass for
\* every node it assigned and a last one that assigned none
C29_Witness ==
    /\ Laid
    /\ CurrentRun.seed # {}
    /\ CurrentRun.passes >= 3
    /\ CurrentRun.passes = Cardinality(Propagated(CurrentRun)) + 1

(* C30: whenever the detail panel is visible and no model-detail fetch is   *)
(* pending, the panel shows the details of the selected model, under any    *)
(* interleaving of selectModel, closeDetail and the fetch completions.      *)
C30_PanelShowsSelected ==
    (panelVisible /\ pendingDetail = <<>>) => detailShown = selectedModel

==============================================================================
